---- MODULE Spec2Model ----
(***************************************************************************)
(* A model of the agent orchestration logic of frontend/src/App.jsx:       *)
(* the tool-call parser, the permission gate with its approval queue, the  *)
(* task runner (request -> reply -> tool -> continue) and the run-all      *)
(* coordinator.                                                            *)
(*                                                                         *)
(* Execution model.  The component is a React 19 function component, so    *)
(* every handler is a closure over the state of the render it was created  *)
(* in, and state written from a promise continuation is rendered in a      *)
(* later macrotask.  One action of this module is one macrotask: an        *)
(* operator event, or the arrival of a /chat or /execute_tool response,    *)
(* followed by all the synchronous and microtask-chained code up to the    *)
(* next network await.  Within an action, the unprimed variables are what  *)
(* tasksRef.current, sharedMessagesRef.current and                         *)
(* pendingApprovalsRef.current hold (the refs are synchronised by effects  *)
(* after each render); the functional state updaters compose into the      *)
(* primed variables.  A chain of awaits keeps the closure values           *)
(* (permissionPolicy, noLookMode, autoRunTools, autoContinue, maxSteps,    *)
(* sharedThread) of the render in which its first handler was created:     *)
(* they are stored in the chain's env field.                               *)
(*                                                                         *)
(* Text.  A text is a sequence of tokens: a maximal run of word characters *)
(* [A-Za-z0-9_] is one token, every other character is a token of its own, *)
(* a code fence (three backticks) is the token FENCE and the two           *)
(* characters backslash-quote inside a JSON string are the token EscQ.     *)
(***************************************************************************)
EXTENDS Integers, Sequences, FiniteSets, TLC

\* ------------------------------------------------------------------ text

Q == "\""
EscQ == "\\\""
FENCE == "<fence>"
WS == {" ", "\n"}

Min(S) == CHOOSE x \in S : \A y \in S : x <= y
Max(S) == CHOOSE x \in S : \A y \in S : x >= y

\* Position of the first token at or after i that is not whitespace
\* (Len(s) + 1 when there is none).
SkipWS(s, i) == Min({j \in i..Len(s) : s[j] \notin WS} \cup {Len(s) + 1})

\* A trim that strips nothing.
keepBlanks(s) == s

\* String.prototype.trim
Trim(s) ==
  LET keep == {j \in 1..Len(s) : s[j] \notin WS}
  IN IF keep = {} THEN <<>> ELSE SubSeq(s, Min(keep), Max(keep))

\* Case folding of the word tokens the regular expressions look at.
ToUpper(w) ==
  CASE w \in {"DONE", "done", "Done"} -> "DONE"
    [] w \in {"JSON", "json"} -> "JSON"
    [] OTHER -> w

\* The marker without the i flag: /^\s*DONE:/
caseSensitiveMarker(text) ==
  LET i == SkipWS(text, 1)
  IN i + 1 <= Len(text) /\ text[i] = "DONE" /\ text[i + 1] = ":"

\* const DONE_MARKER = /^\s*DONE:/i   (DONE_MARKER.test(text))
DONE_MARKER(text) ==
  LET i == SkipWS(text, 1)
  IN i + 1 <= Len(text) /\ ToUpper(text[i]) = "DONE" /\ text[i + 1] = ":"

TOOL_NAMES == {"run_command", "read_file", "write_file", "list_files", "web_search"}

\* ------------------------------------------------------------------ JSON values
\* A decoded value is [t, v]: t the JavaScript type tag, v a sequence.

JUndef == [t |-> "undef", v |-> <<>>]
JNull == [t |-> "null", v |-> <<>>]
JStr(s) == [t |-> "str", v |-> s]
JNum(w) == [t |-> "num", v |-> <<w>>]
JBool(w) == [t |-> "bool", v |-> <<w>>]
JArr(items) == [t |-> "arr", v |-> items]
JObj(members) == [t |-> "obj", v |-> members]
EmptyObj == JObj(<<>>)

NumberWords == {"0", "1", "5", "42"}

\* obj[key] = val on an ordered member list (a repeated key keeps its place).
PutMember(members, key, val) ==
  IF \E i \in 1..Len(members) : members[i][1] = key
  THEN [i \in 1..Len(members) |->
          IF members[i][1] = key THEN <<key, val>> ELSE members[i]]
  ELSE Append(members, <<key, val>>)

\* parsed.key  (undefined when absent; arrays carry none of the keys used)
GetMember(val, key) ==
  IF val.t = "obj" /\ \E i \in 1..Len(val.v) : val.v[i][1] = key
  THEN val.v[CHOOSE i \in 1..Len(val.v) : val.v[i][1] = key][2]
  ELSE JUndef

ParseFail == [ok |-> FALSE, val |-> JUndef, next |-> 0]
ParseOk(val, next) == [ok |-> TRUE, val |-> val, next |-> next]

RECURSIVE ParseString(_, _, _)
\* The string whose opening quote precedes position i.
ParseString(s, i, acc) ==
  IF i > Len(s) THEN ParseFail
  ELSE IF s[i] = Q THEN ParseOk(JStr(acc), i + 1)
  ELSE IF s[i] = "\n" THEN ParseFail
  ELSE IF s[i] = EscQ THEN ParseString(s, i + 1, Append(acc, Q))
  ELSE ParseString(s, i + 1, Append(acc, s[i]))

RECURSIVE ParseValue(_, _)
RECURSIVE ParseMembers(_, _, _)
RECURSIVE ParseElements(_, _, _)

ParseValue(s, from) ==
  LET i == SkipWS(s, from)
  IN IF i > Len(s) THEN ParseFail
     ELSE IF s[i] = "{" THEN
       LET j == SkipWS(s, i + 1)
       IN IF j <= Len(s) /\ s[j] = "}" THEN ParseOk(EmptyObj, j + 1)
          ELSE ParseMembers(s, j, <<>>)
     ELSE IF s[i] = "[" THEN
       LET j == SkipWS(s, i + 1)
       IN IF j <= Len(s) /\ s[j] = "]" THEN ParseOk(JArr(<<>>), j + 1)
          ELSE ParseElements(s, j, <<>>)
     ELSE IF s[i] = Q THEN ParseString(s, i + 1, <<>>)
     ELSE IF s[i] \in NumberWords THEN ParseOk(JNum(s[i]), i + 1)
     ELSE IF s[i] \in {"true", "false"} THEN ParseOk(JBool(s[i]), i + 1)
     ELSE IF s[i] = "null" THEN ParseOk(JNull, i + 1)
     ELSE ParseFail

ParseMembers(s, i, acc) ==
  LET afterValue(k, v) ==
        LET m == SkipWS(s, v.next)
            acc2 == PutMember(acc, k.val.v, v.val)
        IN IF ~v.ok \/ m > Len(s) THEN ParseFail
           ELSE IF s[m] = "}" THEN ParseOk(JObj(acc2), m + 1)
           ELSE IF s[m] = "," THEN ParseMembers(s, SkipWS(s, m + 1), acc2)
           ELSE ParseFail
      afterKey(k) ==
        LET c == SkipWS(s, k.next)
        IN IF ~k.ok THEN ParseFail
           ELSE IF c > Len(s) \/ s[c] # ":" THEN ParseFail
           ELSE afterValue(k, ParseValue(s, c + 1))
  IN IF i > Len(s) \/ s[i] # Q THEN ParseFail
     ELSE afterKey(ParseString(s, i + 1, <<>>))

ParseElements(s, i, acc) ==
  LET afterValue(v) ==
        LET m == SkipWS(s, v.next)
            acc2 == Append(acc, v.val)
        IN IF ~v.ok \/ m > Len(s) THEN ParseFail
           ELSE IF s[m] = "]" THEN ParseOk(JArr(acc2), m + 1)
           ELSE IF s[m] = "," THEN ParseElements(s, m + 1, acc2)
           ELSE ParseFail
  IN afterValue(ParseValue(s, i))

\* JSON.parse(source): ok = FALSE stands for the SyntaxError it throws.
JSONparse(source) ==
  LET whole(r) ==
        IF r.ok /\ SkipWS(source, r.next) > Len(source)
        THEN [ok |-> TRUE, val |-> r.val]
        ELSE [ok |-> FALSE, val |-> JUndef]
  IN whole(ParseValue(source, 1))

\* ------------------------------------------------------------------ ToolCallParser

\* null, for a tool call
NullCall == [tool |-> "", params |-> JUndef]

\* null, for a text
NullText == <<>>

RECURSIVE ScanBraces(_, _, _, _)
ScanBraces(text, startIndex, i, depth) ==
  IF i > Len(text) THEN NullText
  ELSE
    LET opened == IF text[i] = "{" THEN depth + 1 ELSE depth
        closed == IF text[i] = "}" THEN opened - 1 ELSE opened
    IN IF text[i] = "}" /\ closed = 0
       THEN SubSeq(text, startIndex, i)
       ELSE ScanBraces(text, startIndex, i + 1, closed)

findFirstJsonObject(text) ==
  LET opens == {i \in 1..Len(text) : text[i] = "{"}
  IN IF opens = {} THEN NullText
     ELSE ScanBraces(text, Min(opens), Min(opens), 0)

NoMatch == [found |-> FALSE, cap |-> <<>>, from |-> 0, to |-> 0]

\* text.match(/(fence)json\s*([\s\S]*?)(fence)/i)
MatchJsonFence(text) ==
  LET closing(p) == {q \in SkipWS(text, p + 2)..Len(text) : text[q] = FENCE}
      starts == {p \in 1..Len(text) :
                   /\ text[p] = FENCE
                   /\ p + 1 <= Len(text)
                   /\ ToUpper(text[p + 1]) = "JSON"
                   /\ closing(p) # {}}
  IN IF starts = {} THEN NoMatch
     ELSE LET p == Min(starts)
              q == Min(closing(p))
          IN [found |-> TRUE, cap |-> SubSeq(text, SkipWS(text, p + 2), q - 1),
              from |-> p, to |-> q]

\* text.match(/(fence)([\s\S]*?)(fence)/)
MatchAnyFence(text) ==
  LET closing(p) == {q \in (p + 1)..Len(text) : text[q] = FENCE}
      starts == {p \in 1..Len(text) : text[p] = FENCE /\ closing(p) # {}}
  IN IF starts = {} THEN NoMatch
     ELSE LET p == Min(starts)
              q == Min(closing(p))
          IN [found |-> TRUE, cap |-> SubSeq(text, p + 1, q - 1), from |-> p, to |-> q]

Punct == {"{", "}", "[", "]", ":", ",", "=", "-", ".", Q, EscQ, FENCE, " ", "\n"}
IsWord(w) == w \notin Punct
IsIdentStart(w) == IsWord(w) /\ w \notin NumberWords

\* text.match(/to=([a-zA-Z_][\w-]*)/): cap is the captured identifier, to the
\* position of its last token.
MatchToolTag(text) ==
  LET starts == {p \in 1..Len(text) :
                   /\ text[p] = "to"
                   /\ p + 2 <= Len(text)
                   /\ text[p + 1] = "="
                   /\ IsIdentStart(text[p + 2])}
  IN IF starts = {} THEN NoMatch
     ELSE LET p == Min(starts)
              e == Max({j \in (p + 2)..Len(text) :
                          \A k \in (p + 2)..j : IsWord(text[k]) \/ text[k] = "-"})
          IN [found |-> TRUE, cap |-> SubSeq(text, p + 2, e), from |-> p, to |-> e]

\* TOOL_NAMES.has(name) for a name given as a text
IsToolName(name) == Len(name) = 1 /\ name[1] \in TOOL_NAMES

Nullish(val) == val.t \in {"undef", "null"}
Falsy(val) ==
  \/ val.t \in {"undef", "null"}
  \/ val.t = "str" /\ val.v = <<>>
  \/ val.t = "num" /\ val.v = <<"0">>
  \/ val.t = "bool" /\ val.v = <<"false">>
TypeofObject(val) == val.t \in {"obj", "arr", "null"}

\* if (typeof params === "string") { try JSON.parse } ;
\* if (!params || typeof params !== "object") params = {}
NormalizeParams(params) ==
  LET orEmpty(res) == IF res.ok THEN res.val ELSE EmptyObj
      normalized(decoded) ==
        IF Falsy(decoded) \/ ~TypeofObject(decoded) THEN EmptyObj ELSE decoded
  IN normalized(IF params.t = "str" THEN orEmpty(JSONparse(params.v)) ELSE params)

\* a ?? b
Coalesce(a, b) == IF Nullish(a) THEN b ELSE a

\* A resolution that lets a known hint decide before it looks for a name.
hintFirst(source, toolHint) ==
  LET decoded(res) ==
        IF ~res.ok \/ res.val.t # "obj" THEN NullCall
        ELSE IF toolHint # NullText /\ IsToolName(toolHint)
        THEN [tool |-> toolHint[1], params |-> NormalizeParams(res.val)]
        ELSE NullCall
  IN IF source = NullText THEN NullCall ELSE decoded(JSONparse(source))

\* toolHint is the captured identifier, NullText for null.
parseToolCallJson(source, toolHint) ==
  LET named(parsed, namedTool, toolName) ==
        IF namedTool # <<>> THEN
          IF ~IsToolName(toolName) THEN NullCall
          ELSE [tool |-> toolName[1],
                params |-> NormalizeParams(
                  Coalesce(GetMember(parsed, <<"params">>),
                    Coalesce(GetMember(parsed, <<"arguments">>),
                      Coalesce(GetMember(parsed, <<"args">>), EmptyObj))))]
        ELSE IF toolHint # NullText /\ IsToolName(toolHint) THEN
          LET arguments == GetMember(parsed, <<"arguments">>)
              unwrapped == IF arguments.t # "undef" /\ parsed.t = "obj" /\ Len(parsed.v) = 1
                           THEN arguments ELSE parsed
          IN [tool |-> toolHint[1], params |-> NormalizeParams(unwrapped)]
        ELSE NullCall
      typed(parsed, tool, name) ==
        LET namedTool == IF tool.t = "str" THEN tool.v
                         ELSE IF name.t = "str" THEN name.v
                         ELSE NullText
        IN named(parsed, namedTool, Trim(namedTool))
      decoded(res) ==
        IF ~res.ok THEN NullCall
        ELSE IF Falsy(res.val) \/ ~TypeofObject(res.val) THEN NullCall
        ELSE typed(res.val, GetMember(res.val, <<"tool">>), GetMember(res.val, <<"name">>))
  IN IF source = NullText THEN NullCall ELSE decoded(JSONparse(source))

extractToolCall(text) ==
  LET firstOf(directCall, found, toolHint, taggedCall) ==
        IF directCall.tool # "" THEN directCall
        ELSE IF found /\ toolHint # NullText /\ taggedCall.tool # ""
             THEN taggedCall
        ELSE NullCall
      tagged(jsonText, toolTagMatch, toolHint) ==
        firstOf(parseToolCallJson(jsonText, toolHint), toolTagMatch.found, toolHint,
                parseToolCallJson(
                  findFirstJsonObject(SubSeq(text, toolTagMatch.to + 1, Len(text))),
                  toolHint))
      hinted(jsonText, toolTagMatch) ==
        tagged(jsonText, toolTagMatch,
               IF toolTagMatch.found THEN Trim(toolTagMatch.cap) ELSE NullText)
      located(codeMatch, inCandidate) ==
        hinted(IF inCandidate # NullText THEN inCandidate
               ELSE IF codeMatch.found THEN findFirstJsonObject(text)
               ELSE NullText,
               MatchToolTag(text))
      fenced(codeMatch) ==
        located(codeMatch,
                findFirstJsonObject(IF codeMatch.found THEN codeMatch.cap ELSE text))
      matched(jsonFence) ==
        fenced(IF jsonFence.found THEN jsonFence ELSE MatchAnyFence(text))
  IN IF text = <<>> THEN NullCall ELSE matched(MatchJsonFence(text))

\* ------------------------------------------------------------------ bounds

MaxTasks == 2          \* tasks ever created (createTask calls)
MaxChat == 3           \* /chat requests sent in one behaviour
MaxToolRuns == 2       \* /execute_tool requests sent in one behaviour
MaxApprovals == 2      \* approvals ever created (requestApproval calls)
MaxChains == 2         \* handler chains awaiting a collaborator at one time
MaxClicks == 2         \* operator events in one behaviour (task-list events are bounded by MaxTasks)

\* ------------------------------------------------------------------ data

Tools == TOOL_NAMES
PERMISSION_OPTIONS == {"ask", "allow", "deny"}
DEFAULT_PERMISSION_POLICY == [tool \in Tools |-> "allow"]
Actions == {"allow_once", "allow_always", "deny_once", "deny_always"}

\* Error texts (the literals of App.jsx, named).
NoError == <<>>
ERR_EMPTY_PROMPT == <<"prompt required">>
ERR_TASK_NOT_FOUND == <<"task not found">>
ERR_BACKEND == <<"backend unreachable">>
ERR_TOOL_FAILED == <<"tool execution failed">>
\* A denial text that does not say which tool was denied.
genericDenial(tool) == <<"denied by permission policy">>
ErrPolicyDenied(tool) == <<"denied by permission policy", tool>>
ErrApprovalDenied(tool) == <<"denied by permission", tool>>
EMPTY_REPLY == <<"(empty reply)">>
NO_RESULT == <<"(no result)">>

\* const createTask = (index) => ({...}); the fresh id createId() gives is the
\* index here.
createTask(index) ==
  [id |-> index, title |-> <<"Task", " ", ToString(index)>>, prompt |-> <<>>,
   status |-> "idle",
   messages |-> <<>>, pendingToolCall |-> NullCall, error |-> NoError, stepCount |-> 0]

\* A message that leaves the parameters out.
messageWithoutParams(role, content, tool, params) ==
  [role |-> role, content |-> content, tool |-> tool, params |-> JUndef]

Message(role, content, tool, params) ==
  [role |-> role, content |-> content, tool |-> tool, params |-> params]
UserMessage(content) == Message("user", content, "", JUndef)

VARIABLES
  tasks,              \* useState tasks: the list of task records
  taskCounter,        \* taskCounter.current
  activeTaskId,
  sharedThread, autoRunTools, autoContinue,
  maxSteps,           \* the Max Steps input as text (the initial number 6 is "6")
  sharedMessages,
  runAllInProgress,
  permissionPolicy,
  pendingApprovals,
  noLookMode,
  attachToolToTask,
  chatSending,
  chains,             \* slot -> the handler chain suspended on a collaborator, or Idle
  idCounter,          \* approvals created so far (createId gives a fresh id)
  chatCount,          \* /chat requests sent so far
  toolCount,          \* /execute_tool requests sent so far
  clicks,             \* operator events so far that entered a handler of the runner or the gate
  resolutions,        \* history: <<approval id, action>> for every resolveSingleApproval body run
  events,             \* history of the last step: the handlers entered and left in it
  lastOp              \* the event of the last step

vars == <<tasks, taskCounter, activeTaskId, sharedThread, autoRunTools, autoContinue,
          maxSteps, sharedMessages, runAllInProgress, permissionPolicy,
          pendingApprovals, noLookMode, attachToolToTask, chatSending, chains,
          idCounter, chatCount, toolCount, clicks, resolutions, events, lastOp>>

config == <<sharedThread, autoRunTools, autoContinue, maxSteps, attachToolToTask>>

\* The state the handlers write, as one record; Commit makes it the next state.
Store ==
  [tasks |-> tasks, sharedMessages |-> sharedMessages,
   runAllInProgress |-> runAllInProgress, permissionPolicy |-> permissionPolicy,
   pendingApprovals |-> pendingApprovals, chatSending |-> chatSending,
   chains |-> chains, idCounter |-> idCounter, chatCount |-> chatCount,
   toolCount |-> toolCount, resolutions |-> resolutions, events |-> <<>>]

Commit(st) ==
  /\ tasks' = st.tasks
  /\ sharedMessages' = st.sharedMessages
  /\ runAllInProgress' = st.runAllInProgress
  /\ permissionPolicy' = st.permissionPolicy
  /\ pendingApprovals' = st.pendingApprovals
  /\ chatSending' = st.chatSending
  /\ chains' = st.chains
  /\ idCounter' = st.idCounter
  /\ chatCount' = st.chatCount
  /\ toolCount' = st.toolCount
  /\ resolutions' = st.resolutions
  /\ events' = st.events

\* The values a handler closure captured from its render.
Env ==
  [permissionPolicy |-> permissionPolicy, noLookMode |-> noLookMode,
   autoRunTools |-> autoRunTools, autoContinue |-> autoContinue,
   maxSteps |-> maxSteps, sharedThread |-> sharedThread,
   activeTaskId |-> (IF \E i \in 1..Len(tasks) : tasks[i].id = activeTaskId
                     THEN activeTaskId ELSE tasks[1].id),
   attachToolToTask |-> attachToolToTask]

Idle == [wait |-> "idle"]
Slots == 1..MaxChains
FreeSlots == {s \in Slots : chains[s].wait = "idle"}

\* A chain: top is the event handler at the bottom of the call stack, loop the
\* enclosing for-loop (runAllTasks, resolveAllApprovals) with the items it has
\* still to visit, inTool whether the await sits inside executeToolCall's try.
Frame(slot, top, taskId) ==
  [slot |-> slot, top |-> top, taskId |-> taskId, env |-> Env, inTool |-> FALSE,
   manual |-> "", loop |-> "none", rest |-> <<>>, action |-> "", snapshot |-> {}]

HasTask(ts, taskId) == \E i \in 1..Len(ts) : ts[i].id = taskId
\* tasks.find((entry) => entry.id === taskId)
FindTask(ts, taskId) == ts[Min({i \in 1..Len(ts) : ts[i].id = taskId})]

\* { ...task, ...patch }
Merge(task, patch) ==
  [field \in DOMAIN task |-> IF field \in DOMAIN patch THEN patch[field] ELSE task[field]]

\* patchTask(taskId, patch): updateTask(taskId, (task) => ({ ...task, ...patch }))
patchTask(st, taskId, patch) ==
  [st EXCEPT !.tasks = [i \in 1..Len(@) |->
     IF @[i].id = taskId THEN Merge(@[i], patch) ELSE @[i]]]

\* appendTaskMessage(taskId, message)
appendTaskMessage(st, taskId, message) ==
  [st EXCEPT !.tasks = [i \in 1..Len(@) |->
     IF @[i].id = taskId THEN [@[i] EXCEPT !.messages = Append(@, message)] ELSE @[i]]]

\* buildPrompt(task, content)
buildPrompt(task, content) ==
  LET label == Trim(task.title)
  IN IF label # <<>>
     THEN <<"[", "Task", ":", " ">> \o label \o <<"]", "\n">> \o content
     ELSE content

\* Number(maxSteps), for the texts the Max Steps input is given here
\* (NaN for a text that is no number).
NaN == -999
Number(text) ==
  CASE text = "6" -> 6
    [] text = "2" -> 2
    [] text = "1" -> 1
    [] text = "0" -> 0
    [] text = "-1" -> -1
    [] text = "" -> 0
    [] OTHER -> NaN

\* A limit that is the configured number as it stands.
uncoercedLimit(text) == Number(text)

\* A limit that allows one step more.
looseStepLimit(text) == Number(text) + 1

\* Math.max(1, Number(maxSteps) || 1)
StepLimit(text) ==
  LET n == Number(text)
      orOne == IF n = NaN \/ n = 0 THEN 1 ELSE n
  IN IF orOne > 1 THEN orOne ELSE 1

\* A gate that looks at no-look before the policy entry.
noLookBeforeDeny(env, toolName) ==
  IF env.noLookMode THEN "allow" ELSE env.permissionPolicy[toolName]

\* getPermissionForTool, on the closure values env
getPermissionForTool(env, toolName) ==
  LET basePermission == env.permissionPolicy[toolName]
  IN IF basePermission = "deny" THEN "deny"
     ELSE IF env.noLookMode THEN "allow"
     ELSE basePermission

\* A request that puts the approval at the head of the queue.
requestAtHead(st, toolCall, taskId, source) ==
  [st EXCEPT !.idCounter = @ + 1,
             !.pendingApprovals = <<[id |-> st.idCounter + 1, toolCall |-> toolCall,
                                     taskId |-> taskId, source |-> source]>> \o @]

\* requestApproval({id: createId(), toolCall, taskId, source, createdAt})
requestApproval(st, toolCall, taskId, source) ==
  [st EXCEPT !.idCounter = @ + 1,
             !.pendingApprovals = Append(@, [id |-> st.idCounter + 1, toolCall |-> toolCall,
                                            taskId |-> taskId, source |-> source])]

\* A removal that leaves the queue as it is.
keepApproval(st, approvalId) == st

\* A removal that also turns round the approvals it keeps.
removeAndReverse(st, approvalId) ==
  LET kept == SelectSeq(st.pendingApprovals, LAMBDA entry : entry.id # approvalId)
  IN [st EXCEPT !.pendingApprovals = [i \in 1..Len(kept) |-> kept[Len(kept) + 1 - i]]]

removeApprovalById(st, approvalId) ==
  [st EXCEPT !.pendingApprovals = SelectSeq(@, LAMBDA entry : entry.id # approvalId)]

\* A removal that empties the queue.
removeEveryApproval(st, taskId, toolName) == [st EXCEPT !.pendingApprovals = <<>>]

removeApprovalsForTaskTool(st, taskId, toolName) ==
  [st EXCEPT !.pendingApprovals =
     SelectSeq(@, LAMBDA entry : ~(entry.taskId = taskId /\ entry.toolCall.tool = toolName))]

\* ------------------------------------------------------------------ TaskRunner
\* Each operator below runs a handler from where it is entered up to the next
\* network await (Suspend) or to the end of the chain (Return), on the store st;
\* ref is what the refs hold during this macrotask, fr the chain.

\* await fetch(...): the chain waits for a collaborator.
Suspend(st, fr, wait, toolCall, outgoing) ==
  [st EXCEPT !.chains[fr.slot] =
     [wait |-> wait, fr |-> fr, toolCall |-> toolCall, outgoing |-> outgoing]]

Event(st, kind, handler, fr) ==
  [st EXCEPT !.events = Append(@, [kind |-> kind, handler |-> handler, taskId |-> fr.taskId,
                                  top |-> fr.top, snapshot |-> fr.snapshot,
                                  tool |-> "", skipApproval |-> FALSE,
                                  entry |-> "", noLook |-> FALSE, was |-> <<>>, is |-> <<>>])]

\* History: executeToolCall is entered for toolCall, with the policy entry and
\* the no-look flag its closure holds.
Attempt(st, fr, toolCall, skipApproval) ==
  [st EXCEPT !.events = Append(@, [kind |-> "attempt", handler |-> "executeToolCall",
                                  taskId |-> fr.taskId, top |-> fr.top,
                                  snapshot |-> fr.snapshot,
                                  tool |-> toolCall.tool, skipApproval |-> skipApproval,
                                  entry |-> fr.env.permissionPolicy[toolCall.tool],
                                  noLook |-> fr.env.noLookMode, was |-> <<>>, is |-> <<>>])]

\* setSharedMessages: the shared sequence becomes value.  History: the value the
\* update replaces (was) and the value it leaves (is).
setSharedMessages(st, fr, value) ==
  [st EXCEPT !.sharedMessages = value,
             !.events = Append(@, [kind |-> "shared", handler |-> "sendChatRequest",
                                   taskId |-> fr.taskId, top |-> fr.top,
                                   snapshot |-> fr.snapshot,
                                   tool |-> "", skipApproval |-> FALSE,
                                   entry |-> "", noLook |-> FALSE,
                                   was |-> st.sharedMessages, is |-> value])]

Free(st, fr) == [st EXCEPT !.chains[fr.slot] = Idle]

RECURSIVE Return(_, _, _)
RECURSIVE runTask(_, _, _)
RECURSIVE runAllLoop(_, _, _)
RECURSIVE resolveAllLoop(_, _, _)
RECURSIVE resolveSingleApproval(_, _, _, _, _)
RECURSIVE executeToolCall(_, _, _, _, _, _)

\* A throw that no catch stops: the chain ends where it stands.
throwPastTask(st, ref, fr, message) ==
  Free(patchTask(st, fr.taskId, [status |-> "failed", error |-> message]), fr)

\* A throw whose message is lost: the task gets the fallback text.
throwGeneric(st, ref, fr, message) ==
  Return(patchTask(st, fr.taskId, [status |-> "failed", error |-> ERR_BACKEND]), ref, fr)

\* A throw inside the chain: the innermost catch is executeToolCall's (inTool),
\* else runTask's or handleChatSend's; each sets the task to failed with the
\* error's message (every error thrown here carries one) and returns.
Throw(st, ref, fr, message) ==
  Return(patchTask(st, fr.taskId, [status |-> "failed", error |-> message]), ref, fr)

\* sendChatRequest up to its await fetch(/chat)
sendChatRequest(st, ref, fr, content) ==
  IF ~HasTask(ref.tasks, fr.taskId) THEN Throw(st, ref, fr, ERR_TASK_NOT_FOUND)
  ELSE
    LET task == FindTask(ref.tasks, fr.taskId)
        userMessage == UserMessage(content)
        baseMessages == IF fr.env.sharedThread THEN ref.sharedMessages ELSE task.messages
        outgoing == Append(baseMessages, userMessage)
        st1 == IF fr.env.sharedThread THEN setSharedMessages(st, fr, outgoing) ELSE st
        st2 == appendTaskMessage(st1, fr.taskId, userMessage)
    IN Suspend([st2 EXCEPT !.chatCount = @ + 1], fr, "chat", NullCall, outgoing)

\* "Continue the task.\nIf you are fully done, reply with "DONE:" and the final answer."
FollowupAfterReply == <<"Continue the task.", "\n", "If you are fully done, reply with DONE: and the final answer.">>
\* `Tool result (${toolCall.tool}):\n${result}\n\nContinue the task.`
FollowupAfterTool(tool, result) ==
  <<"Tool result (", tool, "):", "\n">> \o result \o <<"\n", "\n", "Continue the task.">>

\* A step number that is always the first.
firstStepAgain(ref, taskId) == 1

\* (task?.stepCount ?? 0) + 1 with task = tasksRef.current.find(...)
NextStep(ref, taskId) ==
  (IF HasTask(ref.tasks, taskId) THEN FindTask(ref.tasks, taskId).stepCount ELSE 0) + 1

\* An auto-run condition that looks at the auto-run flag alone.
autoRunFlagOnly(env, toolCall) == env.autoRunTools

\* const shouldAutoRun = autoRunTools || autoContinue || toolCall.tool === "web_search"
shouldAutoRun(env, toolCall) ==
  env.autoRunTools \/ env.autoContinue \/ toolCall.tool = "web_search"

handleAssistantResponse(st, ref, fr, assistantMessage) ==
  LET content == assistantMessage.content
      nextStep == NextStep(ref, fr.taskId)
      stepLimit == StepLimit(fr.env.maxSteps)
      respond(toolCall) ==
        IF toolCall.tool # "" THEN
          LET st1 == patchTask(st, fr.taskId,
                       [pendingToolCall |-> toolCall, status |-> "awaiting",
                        error |-> NoError])
          IN IF shouldAutoRun(fr.env, toolCall) THEN executeToolCall(st1, ref, fr, toolCall, FALSE, "agent")
             ELSE Return(st1, ref, fr)
        ELSE IF fr.env.autoContinue /\ ~DONE_MARKER(content) /\ nextStep <= stepLimit THEN
          sendChatRequest(
            patchTask(st, fr.taskId, [stepCount |-> nextStep, status |-> "running"]),
            ref, fr, FollowupAfterReply)
        ELSE Return(patchTask(st, fr.taskId, [status |-> "done"]), ref, fr)
  IN respond(extractToolCall(content))

\* executeToolCall(taskId, toolCall, options) up to its await executeTool(toolCall)
executeToolCall(st0, ref, fr, toolCall, skipApproval, source) ==
  LET permission == getPermissionForTool(fr.env, toolCall.tool)
      st == Attempt(st0, fr, toolCall, skipApproval)
  IN IF ~skipApproval /\ permission = "deny" THEN
       Return(patchTask(st, fr.taskId,
                [status |-> "failed", error |-> ErrPolicyDenied(toolCall.tool),
                 pendingToolCall |-> NullCall]),
              ref, fr)
     ELSE IF ~skipApproval /\ permission = "ask" THEN
       Return(patchTask(requestApproval(st, toolCall, fr.taskId, source), fr.taskId,
                [status |-> "awaiting"]),
              ref, fr)
     ELSE
       Suspend([patchTask(st, fr.taskId, [status |-> "running", error |-> NoError])
                EXCEPT !.toolCount = @ + 1],
               [fr EXCEPT !.inTool = TRUE], "tool", toolCall, <<>>)

\* executeToolCall after await executeTool(toolCall) gave result
afterToolResult(st, ref, fr, toolCall, result) ==
  LET toolMessage == Message("tool", result, toolCall.tool, toolCall.params)
      st1 == appendTaskMessage(st, fr.taskId, toolMessage)
      st2 == patchTask(st1, fr.taskId, [pendingToolCall |-> NullCall])
      nextStep == NextStep(ref, fr.taskId)
      stepLimit == StepLimit(fr.env.maxSteps)
      st3 == patchTask(st2, fr.taskId, [stepCount |-> nextStep])
  IN IF fr.env.autoContinue /\ nextStep <= stepLimit THEN
       sendChatRequest(st3, ref, fr, FollowupAfterTool(toolCall.tool, result))
     ELSE Return(patchTask(IF fr.env.autoContinue THEN st3 ELSE st2, fr.taskId,
                           [status |-> "done"]),
                 ref, fr)

\* A start that leaves the pending call and the step counter as they are.
startWithoutClearing(st0, ref, fr) ==
  sendChatRequest(
    patchTask(Event(st0, "enter", "runTask", fr), fr.taskId,
      [status |-> "running", error |-> NoError]),
    ref, fr, Trim(FindTask(ref.tasks, fr.taskId).prompt))

runTask(st0, ref, fr) ==
  LET st == Event(st0, "enter", "runTask", fr)
  IN
  IF ~HasTask(ref.tasks, fr.taskId) THEN Return(st, ref, fr)
  ELSE
    LET task == FindTask(ref.tasks, fr.taskId)
        trimmed == Trim(task.prompt)
    IN IF trimmed = <<>> THEN
         Return(patchTask(st, fr.taskId, [status |-> "failed", error |-> ERR_EMPTY_PROMPT]),
                ref, fr)
       ELSE
         sendChatRequest(
           patchTask(st, fr.taskId,
             [status |-> "running", error |-> NoError,
              pendingToolCall |-> NullCall, stepCount |-> 0]),
           ref, fr, buildPrompt(task, trimmed))

\* ------------------------------------------------------------------ approvals, loops

\* An update that writes the decision into every entry of the table.
policyForEveryTool(policy, tool, action) ==
  IF action = "allow_always" THEN [name \in DOMAIN policy |-> "allow"]
  ELSE IF action = "deny_always" THEN [name \in DOMAIN policy |-> "deny"]
  ELSE policy

\* if (action === "allow_always") setPermissionPolicy((prev) => ({...prev, [tool]: "allow"}))
\* if (action === "deny_always") setPermissionPolicy((prev) => ({...prev, [tool]: "deny"}))
policyAfter(policy, tool, action) ==
  IF action = "allow_always" THEN [policy EXCEPT ![tool] = "allow"]
  ELSE IF action = "deny_always" THEN [policy EXCEPT ![tool] = "deny"]
  ELSE policy

ManualSources == {"console", "editor_read", "editor_write", "explorer_list"}

\* The function of the chain that returns when the chain unwinds.
Unit(fr) ==
  CASE fr.loop = "runAllTasks" -> "runTask"
    [] fr.loop = "resolveAllApprovals" -> "resolveSingleApproval"
    [] fr.top = "resolveApprovalById" -> "resolveSingleApproval"
    [] OTHER -> fr.top

\* The chain unwinds to its event handler: handleChatSend's finally, then the
\* next iteration of the enclosing loop, if any.
Return(st, ref, fr) ==
  LET st1 == IF fr.top = "handleChatSend" THEN [st EXCEPT !.chatSending = FALSE] ELSE st
      st2 == Event(st1, "leave", Unit(fr), fr)
  IN CASE fr.loop = "runAllTasks" -> runAllLoop(st2, ref, fr)
       [] fr.loop = "resolveAllApprovals" -> resolveAllLoop(st2, ref, fr)
       [] OTHER -> Free(st2, fr)

\* for (const task of tasksRef.current) { if (task.prompt.trim()) await runTask(task.id) }
\* fr.rest: the tasks of the array being iterated that are still to visit.
runAllLoop(st, ref, fr) ==
  IF fr.rest = <<>>
  THEN Free(Event([st EXCEPT !.runAllInProgress = FALSE], "leave", "runAllTasks", fr), fr)
  ELSE
    LET task == Head(fr.rest)
        fr1 == [fr EXCEPT !.rest = Tail(@), !.taskId = task.id, !.inTool = FALSE]
    IN IF Trim(task.prompt) # <<>> THEN runTask(st, ref, fr1) ELSE runAllLoop(st, ref, fr1)

\* for (const approval of approvals) { await resolveSingleApproval(approval, action) }
resolveAllLoop(st, ref, fr) ==
  IF fr.rest = <<>>
  THEN Free(Event(st, "leave", fr.top, fr), fr)
  ELSE resolveSingleApproval(st, ref, [fr EXCEPT !.rest = Tail(@)], Head(fr.rest), fr.action)

resolveSingleApproval(st, ref, fr0, approval, action) ==
  LET fr == [fr0 EXCEPT !.taskId = approval.taskId, !.inTool = FALSE, !.manual = ""]
      st1 == removeApprovalById(st, approval.id)
      st2 == [st1 EXCEPT !.permissionPolicy = policyAfter(@, approval.toolCall.tool, action)]
      st3 == Event([st2 EXCEPT !.resolutions = Append(@, <<approval.id, action>>)],
                   "enter", "resolveSingleApproval", fr)
      isDenied == action \in {"deny_once", "deny_always"}
  IN IF isDenied THEN
       Return(IF approval.taskId # 0
              THEN patchTask(st3, approval.taskId,
                     [status |-> "failed",
                      error |-> ErrApprovalDenied(approval.toolCall.tool),
                      pendingToolCall |-> NullCall])
              ELSE st3,
              ref, fr)
     ELSE IF approval.source \in ManualSources THEN
       Suspend([st3 EXCEPT !.toolCount = @ + 1], [fr EXCEPT !.manual = approval.source],
               "tool", approval.toolCall, <<>>)
     ELSE IF approval.taskId # 0 THEN
       executeToolCall(st3, ref, fr, approval.toolCall, TRUE, approval.source)
     ELSE Return(st3, ref, fr)

\* executeToolForConsole / performEditorRead / performEditorWrite /
\* performExplorerList after await executeTool(toolCall): only the console
\* handler writes orchestration state (the tool message attached to the task that
\* was active in its render); every error is caught.
afterManualTool(st, ref, fr, toolCall, ok, result) ==
  Return(IF ok /\ fr.manual = "console" /\ fr.env.attachToolToTask
         THEN appendTaskMessage(st, fr.env.activeTaskId,
                Message("tool", result, toolCall.tool, toolCall.params))
         ELSE st,
         ref, fr)

\* ------------------------------------------------------------------ collaborators

ToolCallText(tool, key, value) ==
  <<"{", Q, "tool", Q, ":", Q, tool, Q, ",", Q, "params", Q, ":", "{",
    Q, key, Q, ":", Q, value, Q, "}", "}">>

ReplyPlain == <<"Working">>
ReplyDone == <<"DONE", ":", " ", "42">>
ReplyDoneLower == <<" ", "done", ":", " ", "ok">>
ReplyNotDone == <<"Not", " ", "DONE", ":">>
ReplyRunCommand == ToolCallText("run_command", "command", "ls")
ReplyWebSearch == ToolCallText("web_search", "query", "tla")

\* ------------------------------------------------------------------ actions

Ref == [tasks |-> tasks, sharedMessages |-> sharedMessages, pendingApprovals |-> pendingApprovals]

\* const activeTask = tasks.find((task) => task.id === activeTaskId) ?? tasks[0]
ActiveTask == IF HasTask(tasks, activeTaskId) THEN FindTask(tasks, activeTaskId) ELSE tasks[1]

Op(name, taskId, slot, id, action) ==
  [op |-> name, taskId |-> taskId, slot |-> slot, id |-> id, action |-> action, text |-> <<>>]

\* The arrival of a collaborator's response that carries text (none: <<>>).
Response(name, taskId, slot, text) == [Op(name, taskId, slot, 0, "") EXCEPT !.text = text]

WithinBounds(st) ==
  /\ st.chatCount <= MaxChat
  /\ st.toolCount <= MaxToolRuns
  /\ st.idCounter <= MaxApprovals

\* The next state is the store st; op names the event.  A collaborator's
\* response is no operator event.
Step(st, op) ==
  /\ WithinBounds(st)
  /\ Commit(st)
  /\ lastOp' = op
  /\ IF op.op \in {"chatReply", "chatError", "toolResult", "toolError"}
     THEN clicks' = clicks
     ELSE clicks < MaxClicks /\ clicks' = clicks + 1

\* Run Task button: runTask(activeTask.id); disabled while the task is running.
RunTaskClick ==
  /\ ActiveTask.status # "running"
  /\ FreeSlots # {}
  /\ LET slot == Min(FreeSlots)
     IN Step(runTask(Store, Ref, Frame(slot, "runTask", ActiveTask.id)),
             Op("runTask", ActiveTask.id, slot, 0, ""))
  /\ UNCHANGED <<taskCounter, activeTaskId, noLookMode, config>>

\* Run All button: runAllTasks(); disabled while runAllInProgress.
RunAllClick ==
  /\ ~runAllInProgress
  /\ FreeSlots # {}
  /\ LET slot == Min(FreeSlots)
         fr == [Frame(slot, "runAllTasks", 0) EXCEPT !.loop = "runAllTasks", !.rest = tasks]
     IN Step(runAllLoop(Event([Store EXCEPT !.runAllInProgress = TRUE],
                              "enter", "runAllTasks", fr), Ref, fr),
             Op("runAllTasks", 0, slot, 0, ""))
  /\ UNCHANGED <<taskCounter, activeTaskId, noLookMode, config>>

ChatInputs == {<<"hi">>, <<" ">>}
chatBusy == ActiveTask.status \in {"running", "awaiting"} \/ chatSending

\* Send button / Ctrl+Enter: handleChatSend() with chatInput = input.
ChatSend(input) ==
  /\ ~chatBusy
  /\ Trim(input) # <<>>
  /\ FreeSlots # {}
  /\ LET slot == Min(FreeSlots)
         fr == Frame(slot, "handleChatSend", ActiveTask.id)
         st1 == patchTask([Store EXCEPT !.chatSending = TRUE], ActiveTask.id,
                  [status |-> "running", error |-> NoError,
                   pendingToolCall |-> NullCall, stepCount |-> 0])
     IN Step(sendChatRequest(Event(st1, "enter", "handleChatSend", fr), Ref, fr, Trim(input)),
             Op("handleChatSend", ActiveTask.id, slot, 0, ""))
  /\ UNCHANGED <<taskCounter, activeTaskId, noLookMode, config>>

\* The /chat response of the chain in slot arrives: the rest of sendChatRequest,
\* then handleAssistantResponse.
ChatResponse(slot, body) ==
  /\ chains[slot].wait = "chat"
  /\ LET fr == chains[slot].fr
         assistantMessage ==
           Message("assistant", IF body.content # <<>> THEN body.content ELSE EMPTY_REPLY,
                   "", JUndef)
         st1 == appendTaskMessage(Store, fr.taskId, assistantMessage)
         st2 == IF fr.env.sharedThread
                THEN setSharedMessages(st1, fr, Append(st1.sharedMessages, assistantMessage))
                ELSE st1
     IN Step(IF body.ok
             THEN handleAssistantResponse(st2, Ref, fr, assistantMessage)
             ELSE Throw(Store, Ref, fr,
                        IF body.content # <<>> THEN body.content ELSE ERR_BACKEND),
             Response(IF body.ok THEN "chatReply" ELSE "chatError", fr.taskId, slot,
                      body.content))
  /\ UNCHANGED <<taskCounter, activeTaskId, noLookMode, config>>

\* The /execute_tool response of the chain in slot arrives.
ToolResponse(slot, body) ==
  /\ chains[slot].wait = "tool"
  /\ LET fr == chains[slot].fr
         toolCall == chains[slot].toolCall
         result == IF body.has THEN body.text ELSE NO_RESULT
         message == IF body.has THEN body.text ELSE ERR_TOOL_FAILED
     IN Step(IF fr.manual # ""
             THEN afterManualTool(Store, Ref, fr, toolCall, body.ok, result)
             ELSE IF body.ok THEN afterToolResult(Store, Ref, fr, toolCall, result)
             ELSE Throw(Store, Ref, fr, message),
             Response(IF body.ok THEN "toolResult" ELSE "toolError", fr.taskId, slot,
                      IF body.has THEN body.text ELSE <<>>))
  /\ UNCHANGED <<taskCounter, activeTaskId, noLookMode, config>>

\* const activeApproval = pendingApprovals[0] ?? null  (the approval the
\* Permissions panel shows with its four buttons), for a queue that is not empty
activeApproval == pendingApprovals[1]

\* isApprovalForActiveTask
isApprovalForActiveTask ==
  /\ ActiveTask.pendingToolCall.tool # ""
  /\ \E i \in 1..Len(pendingApprovals) :
       /\ pendingApprovals[i].taskId = ActiveTask.id
       /\ pendingApprovals[i].toolCall.tool = ActiveTask.pendingToolCall.tool

\* Run button of the Tool Suggestion panel: executeToolCall(activeTask.id,
\* activeTask.pendingToolCall); shown unless the permission is deny, disabled
\* while an approval for the task and tool is queued.
PendingRunClick ==
  /\ ActiveTask.pendingToolCall.tool # ""
  /\ getPermissionForTool(Env, ActiveTask.pendingToolCall.tool) # "deny"
  /\ ~isApprovalForActiveTask
  /\ FreeSlots # {}
  /\ LET slot == Min(FreeSlots)
         fr == Frame(slot, "executeToolCall", ActiveTask.id)
     IN Step(executeToolCall(Event(Store, "enter", "executeToolCall", fr), Ref, fr,
                             ActiveTask.pendingToolCall, FALSE, "agent"),
             Op("executeToolCall", ActiveTask.id, slot, 0, ""))
  /\ UNCHANGED <<taskCounter, activeTaskId, noLookMode, config>>

\* dismissPendingTool(task)
dismissPendingTool(st, task) ==
  IF task.pendingToolCall.tool = "" THEN st
  ELSE patchTask(removeApprovalsForTaskTool(st, task.id, task.pendingToolCall.tool),
                  task.id, [pendingToolCall |-> NullCall, status |-> "done"])

\* Dismiss button (shown while the active task has a pending tool call).
DismissClick ==
  /\ ActiveTask.pendingToolCall.tool # ""
  /\ Step(dismissPendingTool(Store, ActiveTask), Op("dismissPendingTool", ActiveTask.id, 0, 0, ""))
  /\ UNCHANGED <<taskCounter, activeTaskId, noLookMode, config>>

\* resetTask(taskId)
resetTask(st, taskId) ==
  patchTask(st, taskId,
    [prompt |-> <<>>, status |-> "idle", messages |-> <<>>,
     pendingToolCall |-> NullCall, error |-> NoError, stepCount |-> 0])

\* Reset button
ResetClick ==
  /\ Step(resetTask(Store, ActiveTask.id), Op("resetTask", ActiveTask.id, 0, 0, ""))
  /\ UNCHANGED <<taskCounter, activeTaskId, noLookMode, config>>

\* Allow Once / Always Allow / Deny Once / Always Deny of the active approval
\* and Allow / Deny of the previewed ones: resolveApprovalById(id, action).
ResolveById(i, action) ==
  /\ i \in 1..Len(pendingApprovals)
  /\ i = 1 \/ (i <= 4 /\ action \in {"allow_once", "deny_once"})
  /\ FreeSlots # {}
  /\ LET slot == Min(FreeSlots)
         approval == pendingApprovals[i]
         fr == Frame(slot, "resolveApprovalById", approval.taskId)
     IN Step(resolveSingleApproval(Store, Ref, fr, approval, action),
             Op("resolveApprovalById", approval.taskId, slot, approval.id, action))
  /\ UNCHANGED <<taskCounter, activeTaskId, noLookMode, config>>

\* const approvals = [...pendingApprovalsRef.current]; for (...) await resolveSingleApproval
resolveAllApprovals(st, ref, fr0, action) ==
  LET fr == [fr0 EXCEPT !.loop = "resolveAllApprovals", !.rest = ref.pendingApprovals,
                        !.action = action,
                        !.snapshot = {ref.pendingApprovals[i].id : i \in 1..Len(ref.pendingApprovals)}]
  IN resolveAllLoop(Event(st, "enter", fr.top, fr), ref, fr)

\* Allow All Pending / Deny All Pending; disabled while the queue is empty.
ResolveAllClick(action) ==
  /\ action \in {"allow_once", "deny_once"}
  /\ pendingApprovals # <<>>
  /\ FreeSlots # {}
  /\ LET slot == Min(FreeSlots)
     IN Step(resolveAllApprovals(Store, Ref, Frame(slot, "resolveAllApprovals", 0), action),
             Op("resolveAllApprovals", 0, slot, 0, action))
  /\ UNCHANGED <<taskCounter, activeTaskId, noLookMode, config>>

\* handleNoLookToggle without the test of checked: any toggle resolves the queue.
flushOnEveryToggle ==
  /\ noLookMode' = ~noLookMode
  /\ IF pendingApprovals # <<>>
     THEN /\ FreeSlots # {}
          /\ Step(resolveAllApprovals(Store, Ref,
                    Frame(Min(FreeSlots), "handleNoLookToggle", 0), "allow_once"),
                  Op("handleNoLookToggle", 0, Min(FreeSlots), 0,
                     IF noLookMode THEN "off" ELSE "on"))
     ELSE Step(Store, Op("handleNoLookToggle", 0, 0, 0, IF noLookMode THEN "off" ELSE "on"))
  /\ UNCHANGED <<taskCounter, activeTaskId, config>>

\* No-look checkbox: handleNoLookToggle(checked)
NoLookToggle ==
  /\ noLookMode' = ~noLookMode
  /\ IF ~noLookMode /\ pendingApprovals # <<>>
     THEN /\ FreeSlots # {}
          /\ Step(resolveAllApprovals(Store, Ref,
                    Frame(Min(FreeSlots), "handleNoLookToggle", 0), "allow_once"),
                  Op("handleNoLookToggle", 0, Min(FreeSlots), 0, "on"))
     ELSE Step(Store, Op("handleNoLookToggle", 0, 0, 0, IF noLookMode THEN "off" ELSE "on"))
  /\ UNCHANGED <<taskCounter, activeTaskId, config>>

\* ------------------------------------------------------------------ permissions panel, consoles

\* The select of a tool in the Permissions panel.
SetPermission(tool, value) ==
  /\ permissionPolicy[tool] # value
  /\ Step([Store EXCEPT !.permissionPolicy[tool] = value], Op("setPermissionPolicy", 0, 0, 0, value))
  /\ UNCHANGED <<taskCounter, activeTaskId, noLookMode, config>>

\* TOOL_PRESETS[tool], the parameters of a fresh tool draft
TOOL_PRESETS(tool) ==
  CASE tool = "run_command" -> JObj(<< << <<"command">>, JStr(<<>>) >> >>)
    [] tool = "read_file" -> JObj(<< << <<"file_path">>, JStr(<<>>) >> >>)
    [] tool = "write_file" -> JObj(<< << <<"file_path">>, JStr(<<>>) >>, << <<"content">>, JStr(<<>>) >> >>)
    [] tool = "list_files" -> JObj(<< << <<"path">>, JStr(<<".">>) >> >>)
    [] tool = "web_search" -> JObj(<< << <<"query">>, JStr(<<>>) >>, << <<"max_results">>, JNum("5") >> >>)

\* The tool a manual origin asks for: the console any tool, the others one each.
ManualTools(source) ==
  CASE source = "console" -> Tools
    [] source = "editor_read" -> {"read_file"}
    [] source = "editor_write" -> {"write_file"}
    [] source = "explorer_list" -> {"list_files"}

\* handleToolRun / handleEditorLoad / handleEditorSave / handleExplorerRefresh
ManualRequest(source, tool) ==
  /\ source \in ManualSources
  /\ tool \in ManualTools(source)
  /\ FreeSlots # {}
  /\ LET slot == Min(FreeSlots)
         toolCall == [tool |-> tool, params |-> TOOL_PRESETS(tool)]
         permission == getPermissionForTool(Env, tool)
         taskId == IF source = "console" /\ ~attachToolToTask THEN 0 ELSE ActiveTask.id
         fr == [Frame(slot, source, taskId) EXCEPT !.manual = source]
     IN Step(IF permission = "deny" THEN Store
             ELSE IF permission = "ask" THEN requestApproval(Store, toolCall, taskId, source)
             ELSE Suspend([Store EXCEPT !.toolCount = @ + 1], fr, "tool", toolCall, <<>>),
             Op(source, taskId, slot, 0, permission))
  /\ UNCHANGED <<taskCounter, activeTaskId, noLookMode, config>>

\* ------------------------------------------------------------------ task list

\* An effect that leaves the active id as it is.
leaveActive(ts, counter, active) ==
  [tasks |-> ts, taskCounter |-> counter, activeTaskId |-> active]

\* useEffect(() => {...}, [tasks, activeTaskId]): a replacement task for an empty
\* list, the first task for an active id that is not in the list.
ensureActive(ts, counter, active) ==
  IF Len(ts) = 0
  THEN [tasks |-> <<createTask(counter)>>, taskCounter |-> counter + 1, activeTaskId |-> counter]
  ELSE IF ~HasTask(ts, active)
  THEN [tasks |-> ts, taskCounter |-> counter, activeTaskId |-> ts[1].id]
  ELSE [tasks |-> ts, taskCounter |-> counter, activeTaskId |-> active]

\* A task-list event: the list, the counter and the active id after the effect
\* has run; no handler of the runner or of the gate is entered.
ListStep(after, op) ==
  /\ tasks' = after.tasks
  /\ taskCounter' = after.taskCounter
  /\ activeTaskId' = after.activeTaskId
  /\ events' = <<>>
  /\ lastOp' = op
  /\ UNCHANGED <<sharedMessages, runAllInProgress, permissionPolicy, pendingApprovals,
                 chatSending, chains, idCounter, chatCount, toolCount, clicks,
                 resolutions, noLookMode, config>>

\* Add Task button: addTask()
AddTask ==
  /\ taskCounter <= MaxTasks
  /\ LET newTask == createTask(taskCounter)
     IN ListStep(ensureActive(Append(tasks, newTask), taskCounter + 1, newTask.id),
                 Op("addTask", newTask.id, 0, 0, ""))

\* removeTask(taskId): refused while tasksRef.current holds one task.
RemoveTask(taskId) ==
  IF Len(tasks) <= 1
  THEN ListStep(ensureActive(tasks, taskCounter, activeTaskId),
                Op("removeTask", taskId, 0, 0, "refused"))
  ELSE ListStep(ensureActive(SelectSeq(tasks, LAMBDA task : task.id # taskId),
                             taskCounter, activeTaskId),
                Op("removeTask", taskId, 0, 0,
                   IF taskId = activeTaskId THEN "removed the active task" ELSE "removed"))

\* A task tab: setActiveTaskId(task.id)
SelectTask(taskId) ==
  /\ HasTask(tasks, taskId)
  /\ taskId # activeTaskId
  /\ ListStep(ensureActive(tasks, taskCounter, taskId), Op("setActiveTaskId", taskId, 0, 0, ""))

\* ------------------------------------------------------------------ specification

\* The state after the component is constructed (useState initial values)
\* and the operator has added tasks up to n, typed the prompts and set the
\* settings: every such state is reached from the constructed one by addTask,
\* setActiveTaskId and the settings handlers alone.  (The explorer refresh of the
\* mount effect writes explorer state only and is not part of this state.)
Configured(n, prompts, active, policy, noLook, autoRun, autoCont, steps, shared) ==
  /\ tasks = [i \in 1..n |-> [createTask(i) EXCEPT !.prompt = prompts[i]]]
  /\ taskCounter = n + 1
  /\ activeTaskId = active
  /\ sharedThread = shared
  /\ autoRunTools = autoRun
  /\ autoContinue = autoCont
  /\ maxSteps = steps
  /\ sharedMessages = <<>>
  /\ runAllInProgress = FALSE
  /\ permissionPolicy = policy
  /\ pendingApprovals = <<>>
  /\ noLookMode = noLook
  /\ attachToolToTask = TRUE
  /\ chatSending = FALSE
  /\ chains = [s \in Slots |-> Idle]
  /\ idCounter = 0
  /\ chatCount = 0
  /\ toolCount = 0
  /\ clicks = 0
  /\ resolutions = <<>>
  /\ events = <<>>
  /\ lastOp = Op("init", 0, 0, 0, "")

Prompts == {<<"go">>, <<" ">>}
MaxStepsTexts == {"1", "2"}
PolicyWith(value) == [DEFAULT_PERMISSION_POLICY EXCEPT !["run_command"] = value]

\* The collaborators' answers in the runner specification.
RunChatBodies ==
  [ok : {TRUE},
   content : {ReplyPlain, ReplyNotDone, ReplyDone, ReplyDoneLower, ReplyRunCommand}]
    \cup [ok : {FALSE}, content : {<<"model down">>}]
RunToolBodies == [ok : BOOLEAN, has : {TRUE}, text : {<<"out">>}]

\* Runner: one task; the operator has typed the prompt and set auto-run,
\* auto-continue, the step limit and the policy of run_command (allow or deny),
\* with no-look off.
Init ==
  \E prompt \in Prompts, value \in {"allow", "deny"}, autoRun \in BOOLEAN,
     autoCont \in BOOLEAN, steps \in MaxStepsTexts :
    Configured(1, <<prompt>>, 1, PolicyWith(value), FALSE, autoRun, autoCont, steps, FALSE)

Next ==
  \/ RunTaskClick
  \/ \E input \in ChatInputs : ChatSend(input)
  \/ \E slot \in Slots, body \in RunChatBodies : ChatResponse(slot, body)
  \/ \E slot \in Slots, body \in RunToolBodies : ToolResponse(slot, body)
  \/ PendingRunClick
  \/ DismissClick
  \/ ResetClick

Spec == Init /\ [][Next]_vars

\* Permission gate: two tasks with prompts; run_command is ask and no-look is
\* off at first; the operator runs tasks, resolves approvals, dismisses, uses the
\* tool console, changes the policy of run_command and toggles no-look.
GateChatBodies ==
  [ok : {TRUE}, content : {ReplyPlain, ReplyRunCommand}]
GateToolBodies == [ok : BOOLEAN, has : {TRUE}, text : {<<"out">>}]

InitGate ==
  \E steps \in MaxStepsTexts :
    Configured(2, <<<<"go">>, <<"go">>>>, 1, PolicyWith("ask"), FALSE, TRUE, TRUE, steps, FALSE)

NextGate ==
  \/ RunTaskClick
  \/ RunAllClick
  \/ \E slot \in Slots, body \in GateChatBodies : ChatResponse(slot, body)
  \/ \E slot \in Slots, body \in GateToolBodies : ToolResponse(slot, body)
  \/ DismissClick
  \/ \E i \in 1..4, action \in Actions : ResolveById(i, action)
  \/ \E action \in {"allow_once", "deny_once"} : ResolveAllClick(action)
  \/ NoLookToggle
  \/ \E value \in PERMISSION_OPTIONS : SetPermission("run_command", value)
  \/ \E tool \in {"run_command", "list_files"} : ManualRequest("console", tool)

SpecGate == InitGate /\ [][NextGate]_vars

\* Run-all: MaxTasks tasks, each with a prompt or none; run_command is allow,
\* ask or deny; the operator starts run-all, resolves approvals and dismisses.
AllChatBodies ==
  [ok : {TRUE}, content : {ReplyPlain, ReplyRunCommand}]
    \cup [ok : {FALSE}, content : {<<"model down">>, <<>>}]
AllToolBodies ==
  [ok : BOOLEAN, has : {TRUE}, text : {<<"out">>}]
    \cup [ok : {FALSE}, has : {FALSE}, text : {<<>>}]

InitAll ==
  \E prompts \in [1..MaxTasks -> Prompts], value \in PERMISSION_OPTIONS, autoCont \in BOOLEAN :
    Configured(MaxTasks, prompts, 1, PolicyWith(value), FALSE, TRUE, autoCont, "1", FALSE)

NextAll ==
  \/ RunAllClick
  \/ \E slot \in Slots, body \in AllChatBodies : ChatResponse(slot, body)
  \/ \E slot \in Slots, body \in AllToolBodies : ToolResponse(slot, body)
  \/ \E i \in 1..4, action \in Actions : ResolveById(i, action)
  \/ DismissClick

SpecAll == InitAll /\ [][NextAll]_vars

\* Tool suggestions: one task with a prompt; the model proposes run_command or
\* web_search calls or answers in plain text; auto-run and auto-continue are on
\* or off, web_search is allow, ask or deny; the operator runs the task, runs or
\* dismisses the proposed call and resolves approvals.
SuggestChatBodies ==
  [ok : {TRUE}, content : {ReplyPlain, ReplyRunCommand, ReplyWebSearch}]
SuggestToolBodies == [ok : BOOLEAN, has : {TRUE}, text : {<<"out">>}]

InitSuggest ==
  \E value \in PERMISSION_OPTIONS, autoRun \in BOOLEAN, autoCont \in BOOLEAN :
    Configured(1, <<<<"go">>>>, 1, [DEFAULT_PERMISSION_POLICY EXCEPT !["web_search"] = value],
               FALSE, autoRun, autoCont, "1", FALSE)

NextSuggest ==
  \/ RunTaskClick
  \/ \E slot \in Slots, body \in SuggestChatBodies : ChatResponse(slot, body)
  \/ \E slot \in Slots, body \in SuggestToolBodies : ToolResponse(slot, body)
  \/ PendingRunClick
  \/ DismissClick
  \/ \E i \in 1..4, action \in Actions : ResolveById(i, action)

SpecSuggest == InitSuggest /\ [][NextSuggest]_vars

\* Approval queue: two tasks with prompts, run_command is ask, auto-run is on;
\* the operator has pressed Run All (the first state is the one that click
\* leaves: the first task's request is in flight), and then resolves approvals
\* one by one or all at once, while the collaborators answer.
QueueChatBodies == [ok : {TRUE}, content : {ReplyPlain, ReplyRunCommand}]
QueueToolBodies == [ok : BOOLEAN, has : {TRUE}, text : {<<"out">>}]

\* The store and the closure values of the configured component.
ConfiguredStore(n, prompts, policy) ==
  [tasks |-> [i \in 1..n |-> [createTask(i) EXCEPT !.prompt = prompts[i]]],
   sharedMessages |-> <<>>, runAllInProgress |-> FALSE, permissionPolicy |-> policy,
   pendingApprovals |-> <<>>, chatSending |-> FALSE, chains |-> [s \in Slots |-> Idle],
   idCounter |-> 0, chatCount |-> 0, toolCount |-> 0, resolutions |-> <<>>, events |-> <<>>]

ConfiguredEnv(policy, autoCont) ==
  [permissionPolicy |-> policy, noLookMode |-> FALSE, autoRunTools |-> TRUE,
   autoContinue |-> autoCont, maxSteps |-> "1", sharedThread |-> FALSE,
   activeTaskId |-> 1, attachToolToTask |-> TRUE]

\* runAllTasks() on the configured component, up to its first await.
RunAllStarted(st0, env) ==
  LET fr == [slot |-> 1, top |-> "runAllTasks", taskId |-> 0, env |-> env,
             inTool |-> FALSE, manual |-> "", loop |-> "runAllTasks", rest |-> st0.tasks,
             action |-> "", snapshot |-> {}]
      ref == [tasks |-> st0.tasks, sharedMessages |-> st0.sharedMessages,
              pendingApprovals |-> st0.pendingApprovals]
  IN runAllLoop(Event([st0 EXCEPT !.runAllInProgress = TRUE], "enter", "runAllTasks", fr),
                ref, fr)

InitQueue ==
  \E autoCont \in BOOLEAN :
    LET policy == PolicyWith("ask")
        started(st) ==
          /\ tasks = st.tasks
          /\ taskCounter = 3
          /\ activeTaskId = 1
          /\ sharedThread = FALSE
          /\ autoRunTools = TRUE
          /\ autoContinue = autoCont
          /\ maxSteps = "1"
          /\ sharedMessages = st.sharedMessages
          /\ runAllInProgress = st.runAllInProgress
          /\ permissionPolicy = st.permissionPolicy
          /\ pendingApprovals = st.pendingApprovals
          /\ noLookMode = FALSE
          /\ attachToolToTask = TRUE
          /\ chatSending = st.chatSending
          /\ chains = st.chains
          /\ idCounter = st.idCounter
          /\ chatCount = st.chatCount
          /\ toolCount = st.toolCount
          /\ clicks = 0
          /\ resolutions = st.resolutions
          /\ events = st.events
          /\ lastOp = Op("runAllTasks", 0, 1, 0, "")
    IN started(RunAllStarted(ConfiguredStore(2, <<<<"go">>, <<"go">>>>, policy),
                             ConfiguredEnv(policy, autoCont)))

NextQueue ==
  \/ \E slot \in Slots, body \in QueueChatBodies : ChatResponse(slot, body)
  \/ \E slot \in Slots, body \in QueueToolBodies : ToolResponse(slot, body)
  \/ \E i \in 1..4, action \in Actions : ResolveById(i, action)
  \/ \E action \in {"allow_once", "deny_once"} : ResolveAllClick(action)

SpecQueue == InitQueue /\ [][NextQueue]_vars

\* Task list: one task at first, with a prompt or none; the operator adds,
\* removes and selects tasks and runs the active one, while the model answers in
\* plain text or fails.
TasksChatBodies == [ok : BOOLEAN, content : {ReplyPlain}]

InitTasks ==
  \E prompt \in Prompts, autoCont \in BOOLEAN :
    Configured(1, <<prompt>>, 1, DEFAULT_PERMISSION_POLICY, FALSE, TRUE, autoCont, "1", FALSE)

NextTasks ==
  \/ AddTask
  \/ \E taskId \in 1..MaxTasks : RemoveTask(taskId)
  \/ \E taskId \in 1..MaxTasks : SelectTask(taskId)
  \/ RunTaskClick
  \/ \E slot \in Slots, body \in TasksChatBodies : ChatResponse(slot, body)

SpecTasks == InitTasks /\ [][NextTasks]_vars

\* Shared thread: two tasks with prompts, shared-thread mode is on, every tool
\* is allowed and auto-run is on; the operator runs the active task or all
\* tasks, while the model answers in plain text or proposes run_command.
SharedChatBodies == [ok : {TRUE}, content : {ReplyPlain, ReplyRunCommand}]
SharedToolBodies == [ok : {TRUE}, has : {TRUE}, text : {<<"out">>}]

InitShared ==
  \E autoCont \in BOOLEAN, steps \in MaxStepsTexts :
    Configured(2, <<<<"go">>, <<"go">>>>, 1, DEFAULT_PERMISSION_POLICY, FALSE, TRUE, autoCont,
               steps, TRUE)

NextShared ==
  \/ RunTaskClick
  \/ RunAllClick
  \/ \E slot \in Slots, body \in SharedChatBodies : ChatResponse(slot, body)
  \/ \E slot \in Slots, body \in SharedToolBodies : ToolResponse(slot, body)

SpecShared == InitShared /\ [][NextShared]_vars

\* Re-run: the approval-queue specification, in which the operator may also
\* press Run Task on the active task (the first one) once it is no longer
\* running, so that run-all, a Run Task click and a chain resumed by an
\* approval can act on the same task.
NextRerun ==
  \/ NextQueue
  \/ RunTaskClick

SpecRerun == InitQueue /\ [][NextRerun]_vars

\* Approval order: two tasks with prompts; run_command and list_files are ask
\* and the operator has asked for both through the tool console, so that two
\* approvals are queued (they carry the ids -1 and 0: an id is a fresh name, and
\* idCounter counts the approvals asked for from here on).  The operator runs
\* all tasks, uses the console again, resolves approvals one by one or all at
\* once and dismisses.
FifoChatBodies == [ok : {TRUE}, content : {ReplyPlain, ReplyRunCommand}]
FifoToolBodies == [ok : {TRUE}, has : {TRUE}, text : {<<"out">>}]

ConsoleAsked(st, tool) ==
  requestApproval(st, [tool |-> tool, params |-> TOOL_PRESETS(tool)], 1, "console")

InitFifo ==
  LET policy == [PolicyWith("ask") EXCEPT !["list_files"] = "ask"]
      asked(st) ==
        /\ tasks = st.tasks
        /\ taskCounter = 3
        /\ activeTaskId = 1
        /\ sharedThread = FALSE
        /\ autoRunTools = TRUE
        /\ autoContinue = FALSE
        /\ maxSteps = "1"
        /\ sharedMessages = <<>>
        /\ runAllInProgress = FALSE
        /\ permissionPolicy = policy
        /\ pendingApprovals = st.pendingApprovals
        /\ noLookMode = FALSE
        /\ attachToolToTask = TRUE
        /\ chatSending = FALSE
        /\ chains = st.chains
        /\ idCounter = st.idCounter
        /\ chatCount = 0
        /\ toolCount = 0
        /\ clicks = 0
        /\ resolutions = <<>>
        /\ events = <<>>
        /\ lastOp = Op("console", 1, 0, 0, "ask")
  IN asked(ConsoleAsked(ConsoleAsked(
       [ConfiguredStore(2, <<<<"go">>, <<"go">>>>, policy) EXCEPT !.idCounter = -2],
       "run_command"), "list_files"))

NextFifo ==
  \/ RunAllClick
  \/ \E slot \in Slots, body \in FifoChatBodies : ChatResponse(slot, body)
  \/ \E slot \in Slots, body \in FifoToolBodies : ToolResponse(slot, body)
  \/ \E i \in 1..4, action \in Actions : ResolveById(i, action)
  \/ \E action \in {"allow_once", "deny_once"} : ResolveAllClick(action)
  \/ DismissClick
  \/ \E tool \in {"run_command", "list_files"} : ManualRequest("console", tool)

SpecFifo == InitFifo /\ [][NextFifo]_vars

\* Parser: one task with a prompt, auto-run and auto-continue off, so that the
\* call extractToolCall finds in a reply stays the task's pending call; the
\* operator runs the task and the model answers with one of the texts below.
Quoted(s) == <<Q>> \o s \o <<Q>>
Field(key, value) == Quoted(<<key>>) \o <<":">> \o value
Object1(a) == <<"{">> \o a \o <<"}">>
Object2(a, b) == <<"{">> \o a \o <<",">> \o b \o <<"}">>
Object3(a, b, c) == <<"{">> \o a \o <<",">> \o b \o <<",">> \o c \o <<"}">>
Hint(tool) == <<"to", "=", tool, " ">>
NamedCall(key, tool, paramsKey, params) ==
  Object2(Field(key, Quoted(<<tool>>)), Field(paramsKey, params))

PathA == Object1(Field("file_path", Quoted(<<"a">>)))
PathDot == Field("path", Quoted(<<".">>))
ListA == <<"[", Q, "a", Q, "]">>
ReadA == NamedCall("tool", "read_file", "params", PathA)

ParserTexts ==
  { ReadA,
    ReadA \o <<" ", "ok">>,
    <<FENCE, "json", "\n">> \o ReadA \o <<"\n", FENCE>>,
    NamedCall("tool", "run_command", "params", Object1(Field("command", Quoted(<<"}">>)))),
    NamedCall("tool", "run_command", "params", Object1(Field("command", Quoted(<<"{">>))))
      \o <<" ", "ok">>,
    NamedCall("tool", "read_file", "params", ListA),
    NamedCall("tool", "read_file", "params", Quoted(<<"x">>)),
    NamedCall("tool", "read_file", "params", <<Q, "[", EscQ, "a", EscQ, "]", Q>>),
    NamedCall("tool", "read_file", "params", <<"5">>),
    Object3(Field("tool", Quoted(<<"read_file">>)), Field("params", <<"null">>),
            Field("arguments", PathA)),
    NamedCall("tool", "read_file", "arguments", PathA),
    NamedCall("tool", "read_file", "args", PathA),
    NamedCall("tool", "read_file", "file_path", Quoted(<<"a">>)),
    NamedCall("name", "read_file", "params", PathA),
    NamedCall("tool", "bash", "params", PathA),
    Object2(Field("tool", Quoted(<<" ", "read_file", " ">>)), Field("params", PathA)),
    <<"{", Q, "tool", Q, ":", Q, "read_file", Q>>,
    ReplyPlain,
    Hint("list_files") \o ReadA,
    Hint("list_files") \o NamedCall("name", "read_file", "params", PathA),
    Hint("list_files") \o NamedCall("tool", "bash", "path", Quoted(<<".">>)),
    Hint("list_files") \o Object1(PathDot),
    Hint("list_files") \o Object1(Field("arguments", Object1(PathDot))),
    Hint("list_files") \o Object1(Field("arguments", ListA)),
    Hint("list_files") \o Object2(Field("tool", Quoted(<<>>)), PathDot),
    Hint("list_files") \o Object2(Field("tool", <<"5">>), PathDot),
    Hint("list_files") \o Object3(Field("tool", Quoted(<<>>)),
                                  Field("name", Quoted(<<"read_file">>)), PathDot),
    Hint("bash") \o Object1(PathDot) }

ParseChatBodies == [ok : {TRUE}, content : ParserTexts]

InitParse ==
  Configured(1, <<<<"go">>>>, 1, DEFAULT_PERMISSION_POLICY, FALSE, FALSE, FALSE, "1", FALSE)

NextParse ==
  \/ RunTaskClick
  \/ \E slot \in Slots, body \in ParseChatBodies : ChatResponse(slot, body)

SpecParse == InitParse /\ [][NextParse]_vars

\* Step limit: one task with a prompt, auto-run and auto-continue on, every
\* tool allowed; the Max Steps input holds 0, a negative number, nothing or a
\* text that is no number.  The operator runs the task; the model answers in
\* plain text, with the marker or with a run_command call.
LimitTexts == {"0", "-1", "", "abc"}
LimitChatBodies == [ok : {TRUE}, content : {ReplyPlain, ReplyDone, ReplyRunCommand}]

InitLimit ==
  \E steps \in LimitTexts :
    Configured(1, <<<<"go">>>>, 1, DEFAULT_PERMISSION_POLICY, FALSE, TRUE, TRUE, steps, FALSE)

NextLimit ==
  \/ RunTaskClick
  \/ \E slot \in Slots, body \in LimitChatBodies : ChatResponse(slot, body)
  \/ \E slot \in Slots, body \in RunToolBodies : ToolResponse(slot, body)

SpecLimit == InitLimit /\ [][NextLimit]_vars

\* Policy changes while calls are pending: two tasks with prompts, auto-run on,
\* run_command is ask or allow, and the operator has pressed Run All (the first
\* state is the one that click leaves).  The operator then changes the policy of
\* run_command, resolves approvals one by one or all at once and toggles
\* no-look, while the collaborators answer as in the approval-queue
\* specification.

InitDeny ==
  \E value \in {"ask", "allow"} :
    LET policy == PolicyWith(value)
        started(st) ==
          /\ tasks = st.tasks
          /\ taskCounter = 3
          /\ activeTaskId = 1
          /\ sharedThread = FALSE
          /\ autoRunTools = TRUE
          /\ autoContinue = FALSE
          /\ maxSteps = "1"
          /\ sharedMessages = st.sharedMessages
          /\ runAllInProgress = st.runAllInProgress
          /\ permissionPolicy = st.permissionPolicy
          /\ pendingApprovals = st.pendingApprovals
          /\ noLookMode = FALSE
          /\ attachToolToTask = TRUE
          /\ chatSending = st.chatSending
          /\ chains = st.chains
          /\ idCounter = st.idCounter
          /\ chatCount = st.chatCount
          /\ toolCount = st.toolCount
          /\ clicks = 0
          /\ resolutions = st.resolutions
          /\ events = st.events
          /\ lastOp = Op("runAllTasks", 0, 1, 0, "")
    IN started(RunAllStarted(ConfiguredStore(2, <<<<"go">>, <<"go">>>>, policy),
                             ConfiguredEnv(policy, FALSE)))

NextDeny ==
  \/ \E slot \in Slots, body \in QueueChatBodies : ChatResponse(slot, body)
  \/ \E slot \in Slots, body \in QueueToolBodies : ToolResponse(slot, body)
  \/ \E i \in 1..4, action \in Actions : ResolveById(i, action)
  \/ \E action \in {"allow_once", "deny_once"} : ResolveAllClick(action)
  \/ \E value \in PERMISSION_OPTIONS : SetPermission("run_command", value)
  \/ NoLookToggle

SpecDeny == InitDeny /\ [][NextDeny]_vars

\* Dismissal: the approval-queue specification, in which the operator may also
\* select a task and dismiss the pending tool call of the active task.
NextDismiss ==
  \/ NextQueue
  \/ DismissClick
  \/ \E taskId \in 1..MaxTasks : SelectTask(taskId)

SpecDismiss == InitQueue /\ [][NextDismiss]_vars

\* Reset: the approval-queue specification, in which the operator may also
\* press Run Task and Reset on the active task (the first one).
NextReset ==
  \/ NextQueue
  \/ RunTaskClick
  \/ ResetClick

SpecReset == InitQueue /\ [][NextReset]_vars

\* Settling: one task with a prompt; run_command is allow, ask or deny, auto-run
\* and auto-continue are on or off, the step limit is 1, and the operator has
\* pressed Run All (the first state is the one that click leaves: the run has
\* started).  The operator resolves approvals when he likes; the collaborators
\* answer, or fail, and always answer in the end: a request in flight is an
\* open fetch, and the two fairness conditions say that each one gets its
\* response.
InitLive ==
  \E value \in PERMISSION_OPTIONS, autoRun \in BOOLEAN, autoCont \in BOOLEAN :
    LET policy == PolicyWith(value)
        started(st) ==
          /\ tasks = st.tasks
          /\ taskCounter = 2
          /\ activeTaskId = 1
          /\ sharedThread = FALSE
          /\ autoRunTools = autoRun
          /\ autoContinue = autoCont
          /\ maxSteps = "1"
          /\ sharedMessages = st.sharedMessages
          /\ runAllInProgress = st.runAllInProgress
          /\ permissionPolicy = st.permissionPolicy
          /\ pendingApprovals = st.pendingApprovals
          /\ noLookMode = FALSE
          /\ attachToolToTask = TRUE
          /\ chatSending = st.chatSending
          /\ chains = st.chains
          /\ idCounter = st.idCounter
          /\ chatCount = st.chatCount
          /\ toolCount = st.toolCount
          /\ clicks = 0
          /\ resolutions = st.resolutions
          /\ events = st.events
          /\ lastOp = Op("runAllTasks", 0, 1, 0, "")
    IN started(RunAllStarted(ConfiguredStore(1, <<<<"go">>>>, policy),
                             [ConfiguredEnv(policy, autoCont) EXCEPT !.autoRunTools = autoRun]))

ChatAnswers == \E slot \in Slots, body \in AllChatBodies : ChatResponse(slot, body)
ToolAnswers == \E slot \in Slots, body \in AllToolBodies : ToolResponse(slot, body)

NextLive ==
  \/ ChatAnswers
  \/ ToolAnswers
  \/ \E i \in 1..4, action \in Actions : ResolveById(i, action)

SpecLive == InitLive /\ [][NextLive]_vars /\ WF_vars(ChatAnswers) /\ WF_vars(ToolAnswers)

\* ------------------------------------------------------------------ properties

\* C1: getPermissionForTool gives deny whenever the policy entry of the tool is
\* deny, whether no-look is on or off; otherwise allow whenever no-look is on;
\* otherwise the stored entry (allow or ask).  So, for every policy table,
\* switching no-look on never gives deny for an allow or ask entry, always
\* turns ask into allow, and leaves deny as deny.
C1_EffectivePermission ==
  \A tool \in Tools, noLook \in BOOLEAN :
    LET entry == permissionPolicy[tool]
        result == getPermissionForTool([Env EXCEPT !.noLookMode = noLook], tool)
        underNoLook == getPermissionForTool([Env EXCEPT !.noLookMode = TRUE], tool)
    IN /\ entry = "deny" => result = "deny"
       /\ entry # "deny" /\ noLook => result = "allow"
       /\ entry # "deny" /\ ~noLook => result = entry /\ result \in {"allow", "ask"}
       /\ result \in {"allow", "ask"} => underNoLook = "allow"
       /\ result = "deny" => underNoLook = "deny"

\* The operator has set run_command to deny and switched no-look on, and in
\* another state run_command is ask with no-look on.
C1_Witness ==
  /\ noLookMode
  /\ permissionPolicy["run_command"] = "deny"
  /\ getPermissionForTool(Env, "run_command") = "deny"
  /\ getPermissionForTool(Env, "list_files") = "allow"

\* C2: in every reachable state and for every task, a pending tool call
\* implies that the status is awaiting or running (in particular after a
\* failure of the tool collaborator, after the rejection of an empty prompt and
\* after the resolution of an approval).
C2_PendingImpliesActive ==
  \A i \in 1..Len(tasks) :
    tasks[i].pendingToolCall.tool # "" => tasks[i].status \in {"awaiting", "running"}

\* The tool collaborator has failed and the task is failed with its tool call
\* still pending.
C2_FailedWithPending ==
  /\ lastOp.op = "toolError"
  /\ \E i \in 1..Len(tasks) :
       /\ tasks[i].id = lastOp.taskId
       /\ tasks[i].status = "failed"
       /\ tasks[i].pendingToolCall.tool # ""

\* C3: with the step limit held fixed during a run, the stepCount of every task
\* is at most the configured step limit (coerced to at least 1) in every
\* reachable state, after a reply and after a tool result alike.
C3_StepCountWithinLimit ==
  \A i \in 1..Len(tasks) : tasks[i].stepCount <= StepLimit(maxSteps)

\* A tool result has been recorded and the task is done with more steps counted
\* than the limit allows.
C3_StepCountPastLimit ==
  /\ lastOp.op = "toolResult"
  /\ \E i \in 1..Len(tasks) :
       /\ tasks[i].id = lastOp.taskId
       /\ tasks[i].status = "done"
       /\ tasks[i].stepCount = StepLimit(maxSteps) + 1

\* The handler chains that ended in the last step with the no-look toggle as
\* their event handler.
FinishedToggles ==
  {k \in 1..Len(events) :
     events[k].kind = "leave" /\ events[k].handler = "handleNoLookToggle"}

ResolutionsOf(id) == {j \in 1..Len(resolutions) : resolutions[j][1] = id}

\* C4: switching no-look on while N approvals are queued resolves each of those
\* N approvals exactly once, with allow_once, and when the toggle handler has
\* finished the approval queue is empty.
C4_FlushEmptiesQueue ==
  \A k \in FinishedToggles :
    /\ pendingApprovals = <<>>
    /\ \A id \in events[k].snapshot :
         /\ Cardinality(ResolutionsOf(id)) = 1
         /\ \A j \in ResolutionsOf(id) : resolutions[j][2] = "allow_once"

\* The toggle handler has finished and an approval is queued: the one its own
\* chain asked for when the model's next reply carried a tool call.
C4_QueuedAfterFlush ==
  /\ FinishedToggles # {}
  /\ lastOp.op = "chatReply"
  /\ noLookMode
  /\ pendingApprovals # <<>>

\* C5: dismissPendingTool on a task whose pendingToolCall is not null leaves
\* the task done with pendingToolCall null and removes from the approval queue
\* every approval of that task for the dismissed tool; the approvals of other
\* tasks or other tools stay queued, in their order.
C5_DismissStep ==
  \A i \in 1..Len(tasks) :
    (/\ lastOp'.op = "dismissPendingTool"
     /\ clicks' = clicks + 1
     /\ lastOp'.taskId = tasks[i].id
     /\ tasks[i].pendingToolCall.tool # "")
    => /\ tasks'[i].status = "done"
       /\ tasks'[i].pendingToolCall = NullCall
       /\ pendingApprovals' =
            SelectSeq(pendingApprovals, LAMBDA entry :
              ~(entry.taskId = tasks[i].id
                /\ entry.toolCall.tool = tasks[i].pendingToolCall.tool))

DeniedInStep ==
  IF lastOp'.op = "resolveApprovalById" /\ lastOp'.action \in {"deny_once", "deny_always"}
  THEN {i \in 1..Len(pendingApprovals) : pendingApprovals[i].id = lastOp'.id}
  ELSE IF lastOp'.op = "resolveAllApprovals" /\ lastOp'.action = "deny_once"
  THEN 1..Len(pendingApprovals)
  ELSE {}

\* C6: resolving a queued approval with deny_once or deny_always removes it
\* from the queue, does not invoke the tool collaborator for it and, when the
\* approval has a taskId, sets that task to failed with an error naming the tool
\* and pendingToolCall null; deny_always also sets the policy entry of the
\* tool to deny.
C6_DenyStep ==
  clicks' = clicks + 1 =>
    \A i \in DeniedInStep :
      LET approval == pendingApprovals[i]
      IN /\ \A j \in 1..Len(pendingApprovals') : pendingApprovals'[j].id # approval.id
         /\ toolCount' = toolCount
         /\ \A s \in Slots : chains'[s].wait = "tool" => chains'[s] = chains[s]
         /\ approval.taskId # 0 =>
              \A t \in 1..Len(tasks') :
                tasks'[t].id = approval.taskId =>
                  /\ tasks'[t].status = "failed"
                  /\ tasks'[t].error = ErrApprovalDenied(approval.toolCall.tool)
                  /\ tasks'[t].pendingToolCall = NullCall
         /\ lastOp'.action = "deny_always" =>
              permissionPolicy'[approval.toolCall.tool] = "deny"

C6_Deny == [][C6_DenyStep]_vars

\* An approval tied to a task has been denied for good: the queue is empty, the
\* policy of its tool is deny, the task is failed and no tool was run.
C6_Witness ==
  /\ lastOp.op = "resolveApprovalById"
  /\ lastOp.action = "deny_always"
  /\ resolutions = <<<<lastOp.id, "deny_always">>>>
  /\ pendingApprovals = <<>>
  /\ permissionPolicy["run_command"] = "deny"
  /\ toolCount = 0
  /\ \E i \in 1..Len(tasks) :
       /\ tasks[i].id = lastOp.taskId
       /\ tasks[i].status = "failed"
       /\ tasks[i].error = ErrApprovalDenied("run_command")

\* The steps of the last event in which run-all entered runTask.
RunAllEntries ==
  {k \in 1..Len(events) :
     events[k].kind = "enter" /\ events[k].handler = "runTask"
       /\ events[k].top = "runAllTasks"}

\* C7: runAllTasks runs the tasks that have a non-empty trimmed prompt one at a
\* time in list order (a task with an empty prompt is skipped and left as it
\* was), and it does not start the next task before the previous one has fully
\* completed: its whole auto-continue chain has ended and it has settled.
C7_RunAllSequential ==
  \A k \in RunAllEntries :
    \A i, j \in 1..Len(tasks) :
      (tasks[j].id = events[k].taskId /\ i < j) =>
        IF Trim(tasks[i].prompt) = <<>>
        THEN tasks[i].status = "idle" /\ tasks[i].messages = <<>>
        ELSE tasks[i].status \in {"done", "failed"}

\* Run-all has sent the second task's request while the first task is
\* awaiting the operator's approval of its tool call.
C7_NextStartedWhileAwaiting ==
  /\ lastOp.op = "chatReply"
  /\ RunAllEntries # {}
  /\ Len(tasks) >= 2
  /\ tasks[1].status = "awaiting"
  /\ tasks[1].pendingToolCall.tool # ""
  /\ tasks[2].status = "running"
  /\ \E i \in 1..Len(pendingApprovals) : pendingApprovals[i].taskId = tasks[1].id

\* The tasks with a prompt among those run-all has still to visit.
LaterTasks(s) == SelectSeq(chains[s].fr.rest, LAMBDA task : Trim(task.prompt) # <<>>)

\* C8 (step): a response makes the task that run-all is running failed.
C8_FailureStep ==
  \A s \in Slots :
    (/\ chains[s].wait # "idle"
     /\ chains[s].fr.top = "runAllTasks"
     /\ lastOp'.slot = s
     /\ lastOp'.op \in {"chatReply", "chatError", "toolResult", "toolError"}
     /\ \E i \in 1..Len(tasks) :
          /\ tasks[i].id = chains[s].fr.taskId
          /\ tasks[i].status # "failed"
          /\ tasks'[i].status = "failed")
    => /\ \A j \in 1..Len(tasks) :
            (tasks[j].id # chains[s].fr.taskId /\ tasks'[j].status = "failed")
              => tasks[j].status = "failed"
       /\ IF LaterTasks(s) = <<>>
          THEN chains'[s].wait = "idle" /\ ~runAllInProgress'
          ELSE /\ chains'[s].wait = "chat"
               /\ chains'[s].fr.top = "runAllTasks"
               /\ chains'[s].fr.taskId = Head(LaterTasks(s)).id
               /\ runAllInProgress'

\* C8: during run-all, a model or tool failure, or a permission denial, in one
\* task sets only that task to failed; run-all goes on to every later task
\* with a non-empty prompt, and the run-all-in-progress flag is cleared when
\* run-all ends (it is set only while a run-all chain is alive).
C8_FailureDoesNotAbort ==
  /\ [][C8_FailureStep]_vars
  /\ [](runAllInProgress =>
          \E s \in Slots : chains[s].wait # "idle" /\ chains[s].fr.top = "runAllTasks")

\* The first task has failed on a model error, run-all went on and has ended:
\* the second task is done and the flag is cleared.
C8_Witness ==
  /\ Len(tasks) >= 2
  /\ tasks[1].status = "failed"
  /\ tasks[1].error = <<"model down">>
  /\ tasks[2].status = "done"
  /\ ~runAllInProgress
  /\ \E k \in 1..Len(events) :
       events[k].kind = "leave" /\ events[k].handler = "runAllTasks"

\* The text begins, after optional whitespace and in any letter case, with DONE:
BeginsWithDone(text) ==
  \E n \in 0..Len(text) :
    /\ \A k \in 1..n : text[k] \in {" ", "\n"}
    /\ n + 2 <= Len(text)
    /\ text[n + 1] \in {"DONE", "Done", "done"}
    /\ text[n + 2] = ":"

\* C9: with auto-continue on, an assistant reply that holds no tool call and
\* begins (after optional whitespace, in any letter case) with DONE: causes no
\* further model request, whatever step budget remains: the task goes to done
\* and its stepCount is unchanged.
C9_DoneStep ==
  \A s \in Slots, i \in 1..Len(tasks) :
    (/\ chains[s].wait = "chat"
     /\ lastOp'.op = "chatReply"
     /\ lastOp'.slot = s
     /\ tasks[i].id = chains[s].fr.taskId
     /\ chains[s].fr.env.autoContinue
     /\ Len(tasks'[i].messages) > Len(tasks[i].messages)
     /\ LET reply == tasks'[i].messages[Len(tasks[i].messages) + 1]
        IN /\ reply.role = "assistant"
           /\ extractToolCall(reply.content) = NullCall
           /\ BeginsWithDone(reply.content))
    => /\ tasks'[i].status = "done"
       /\ tasks'[i].stepCount = tasks[i].stepCount
       /\ chatCount' = chatCount
       /\ chains'[s].wait = "idle"

C9_DoneEndsRun == [][C9_DoneStep]_vars

\* The first reply of a run with two steps allowed was " done: ok": the task is
\* done with no step counted and one request sent.
C9_Witness ==
  /\ lastOp.op = "chatReply"
  /\ autoContinue
  /\ maxSteps = "2"
  /\ chatCount = 1
  /\ tasks[1].status = "done"
  /\ tasks[1].stepCount = 0
  /\ Len(tasks[1].messages) = 2
  /\ tasks[1].messages[2].content = ReplyDoneLower

\* The replies the task has received.
Replies(task) ==
  SelectSeq(task.messages, LAMBDA message : message.role = "assistant")

\* A run that nothing interfered with (one operator event) in which the model
\* answered every request so far without a tool call and without the marker.
PlainRun ==
  /\ autoContinue
  /\ clicks = 1
  /\ chatCount >= 1
  /\ \A k \in 1..Len(Replies(tasks[1])) :
       /\ extractToolCall(Replies(tasks[1])[k].content) = NullCall
       /\ ~BeginsWithDone(Replies(tasks[1])[k].content)

\* C10: with auto-continue on, step limit L and a model that only returns
\* replies without a tool call and without the DONE: marker, a run sends
\* exactly L continuation requests after the initial one, ends with
\* stepCount = L and settles in done (not failed) without an (L+1)-th
\* continuation request.
C10_StepLimitExhaustion ==
  PlainRun =>
    LET L == Number(maxSteps)
        task == tasks[1]
    IN /\ chatCount <= L + 1
       /\ (chains[1].wait = "chat" /\ Len(Replies(task)) = chatCount - 1) =>
            /\ task.status = "running"
            /\ task.stepCount = chatCount - 1
       /\ (chains[1].wait = "idle" /\ Len(Replies(task)) = chatCount) =>
            /\ task.status = "done"
            /\ task.stepCount = L
            /\ chatCount = L + 1

\* A run with step limit 2 has ended after three plain replies.
C10_Witness ==
  /\ PlainRun
  /\ maxSteps = "2"
  /\ chains[1].wait = "idle"
  /\ Len(Replies(tasks[1])) = 3
  /\ chatCount = 3
  /\ tasks[1].status = "done"
  /\ tasks[1].stepCount = 2
  /\ \E k \in 1..3 : Replies(tasks[1])[k].content = ReplyNotDone

\* The attempts of the step (executeToolCall entered without skipApproval) whose
\* closure holds the policy entry `entry` and the no-look flag `noLook`.
GatedAttempts(entry, noLook) ==
  {k \in 1..Len(events') :
     /\ events'[k].kind = "attempt"
     /\ ~events'[k].skipApproval
     /\ events'[k].entry = entry
     /\ events'[k].noLook = noLook}

\* No chain starts to wait for a collaborator on behalf of task taskId in the step.
NoRequestFor(taskId) ==
  \A s \in Slots :
    (chains'[s].wait # "idle" /\ chains'[s].fr.taskId = taskId) => chains'[s] = chains[s]

\* The attempt is the last thing the step's handlers do on its task (the
\* enclosing resolve-all loop does not go on to another approval of that task).
LastOnTask(k) ==
  \A h \in (k + 1)..Len(events') :
    events'[h].taskId = events'[k].taskId => events'[h].kind = "leave"

\* C11 (step): the outcome of every attempt whose permission is deny.
C11_DeniedStep ==
  \A noLook \in BOOLEAN :
    \A k \in GatedAttempts("deny", noLook) :
      /\ \A i \in 1..Len(tasks) :
           (tasks[i].id = events'[k].taskId /\ LastOnTask(k)) =>
             /\ tasks'[i].status = "failed"
             /\ tasks'[i].error = ErrPolicyDenied(events'[k].tool)
             /\ \E n \in 1..Len(tasks'[i].error) : tasks'[i].error[n] = events'[k].tool
             /\ tasks'[i].pendingToolCall = NullCall
      /\ toolCount' = toolCount
      /\ idCounter' = idCounter
      /\ \A j \in 1..Len(pendingApprovals') :
           \E h \in 1..Len(pendingApprovals) : pendingApprovals'[j] = pendingApprovals[h]
      /\ LastOnTask(k) => NoRequestFor(events'[k].taskId)

\* C11: an execution attempt without skipApproval for a tool whose effective
\* permission is deny (its policy entry is deny, no-look on or off) sets the
\* task to failed with the error that names the tool and pendingToolCall null,
\* invokes no tool collaborator, enqueues no approval and sends no model
\* request for the task.
C11_DeniedAttempt == [][C11_DeniedStep]_vars

\* A reply of run-all's first task carried a run_command call while run_command
\* is denied: the task is failed with the error naming run_command, nothing was
\* run or queued, and run-all has gone on to the second task.
C11_Witness ==
  /\ lastOp.op = "chatReply"
  /\ \E k \in 1..Len(events) :
       /\ events[k].kind = "attempt"
       /\ ~events[k].skipApproval
       /\ events[k].entry = "deny"
       /\ events[k].taskId = tasks[1].id
  /\ tasks[1].status = "failed"
  /\ tasks[1].error = ErrPolicyDenied("run_command")
  /\ tasks[1].pendingToolCall = NullCall
  /\ Len(tasks[1].messages) = 2
  /\ toolCount = 0
  /\ pendingApprovals = <<>>
  /\ \E s \in Slots : chains[s].wait = "chat" /\ chains[s].fr.taskId = tasks[2].id

\* The resolutions with an allow action that the step adds to the history.
NewAllows ==
  {j \in (Len(resolutions) + 1)..Len(resolutions') :
     resolutions'[j][2] \in {"allow_once", "allow_always"}}

\* C12 (step): the outcome of every attempt whose permission is ask, and the
\* only ways in which a task's tool call reaches the tool collaborator.
C12_AskStep ==
  /\ \A k \in GatedAttempts("ask", FALSE) :
       LET n == Len(pendingApprovals')
       IN /\ idCounter' = idCounter + 1
          /\ n >= 1
          /\ pendingApprovals'[n].id = idCounter'
          /\ pendingApprovals'[n].taskId = events'[k].taskId
          /\ pendingApprovals'[n].toolCall.tool = events'[k].tool
          /\ \A j \in 1..(n - 1) :
               \E h \in 1..Len(pendingApprovals) : pendingApprovals'[j] = pendingApprovals[h]
          /\ LastOnTask(k) =>
               /\ \A i \in 1..Len(tasks) :
                    tasks[i].id = events'[k].taskId =>
                      /\ tasks'[i].status = "awaiting"
                      /\ tasks'[i].pendingToolCall = pendingApprovals'[n].toolCall
                      /\ tasks'[i].pendingToolCall # NullCall
               /\ NoRequestFor(events'[k].taskId)
  /\ \A s \in Slots :
       (chains'[s].wait = "tool" /\ chains'[s] # chains[s] /\ chains'[s].fr.manual = "") =>
         \E k \in 1..Len(events') :
           /\ events'[k].kind = "attempt"
           /\ events'[k].taskId = chains'[s].fr.taskId
           /\ events'[k].tool = chains'[s].toolCall.tool
           /\ IF events'[k].skipApproval
              THEN NewAllows # {}
              ELSE events'[k].entry = "allow"
                     \/ (events'[k].entry = "ask" /\ events'[k].noLook)

\* C12: an execution attempt without skipApproval for a tool whose effective
\* permission is ask (policy entry ask, no-look off) appends exactly one
\* approval, carrying that tool call and task id, at the tail of the queue, sets
\* the task to awaiting and keeps its pendingToolCall; it invokes no tool
\* collaborator: a task's tool call reaches the collaborator only through an
\* attempt that the gate allows or through a resolution with an allow action.
C12_AskAttempt == [][C12_AskStep]_vars

\* The second task's reply carried a run_command call while run_command is
\* ask: its approval is queued behind the first task's, the task is awaiting
\* with the call pending, and no tool was run.
C12_Witness ==
  /\ lastOp.op = "chatReply"
  /\ \E k \in 1..Len(events) :
       /\ events[k].kind = "attempt"
       /\ ~events[k].skipApproval
       /\ events[k].entry = "ask"
       /\ ~events[k].noLook
       /\ events[k].taskId = tasks[2].id
  /\ Len(pendingApprovals) = 2
  /\ pendingApprovals[1].taskId = tasks[1].id
  /\ pendingApprovals[2].taskId = tasks[2].id
  /\ pendingApprovals[2].toolCall = tasks[2].pendingToolCall
  /\ tasks[2].pendingToolCall.tool = "run_command"
  /\ tasks[2].status = "awaiting"
  /\ toolCount = 0

\* The handlers of the step enter no function on behalf of task taskId.
QuietOn(taskId) ==
  \A h \in 1..Len(events') : events'[h].taskId = taskId => events'[h].kind = "leave"

ToolMessages(messages) == SelectSeq(messages, LAMBDA message : message.role = "tool")

\* C13 (step): the tool collaborator answers the /execute_tool request of a
\* task's tool call with a result.
C13_ToolResultStep ==
  \A s \in Slots, i \in 1..Len(tasks) :
    (/\ chains[s].wait = "tool"
     /\ chains[s].fr.manual = ""
     /\ chains[s].fr.taskId = tasks[i].id
     /\ lastOp'.op = "toolResult"
     /\ lastOp'.slot = s)
    => LET before == tasks[i].messages
           after == tasks'[i].messages
           toolCall == chains[s].toolCall
       IN /\ Len(after) > Len(before)
          /\ SubSeq(after, 1, Len(before)) = before
          /\ after[Len(before) + 1].role = "tool"
          /\ after[Len(before) + 1].tool = toolCall.tool
          /\ after[Len(before) + 1].params = toolCall.params
          /\ after[Len(before) + 1].content =
               (IF lastOp'.text # <<>> THEN lastOp'.text ELSE NO_RESULT)
          /\ Len(ToolMessages(after)) = Len(ToolMessages(before)) + 1
          /\ tasks'[i].pendingToolCall = NullCall
          /\ (~chains[s].fr.env.autoContinue /\ QuietOn(tasks[i].id)) =>
               /\ tasks'[i].status = "done"
               /\ Len(after) = Len(before) + 1
               /\ tasks'[i].stepCount = tasks[i].stepCount
               /\ NoRequestFor(tasks[i].id)

\* C13: when a task's tool call is executed and the tool collaborator succeeds,
\* exactly one message with role tool, carrying the tool name, the params and
\* the result, is appended to that task's log and pendingToolCall becomes
\* null; when auto-continue is off the task then settles in done.
C13_ToolResult == [][C13_ToolResultStep]_vars

\* With auto-continue off the run_command call of the task was executed and
\* gave "out": the log ends with the tool message and the task is done.
C13_Witness ==
  /\ lastOp.op = "toolResult"
  /\ ~autoContinue
  /\ tasks[1].status = "done"
  /\ tasks[1].pendingToolCall = NullCall
  /\ Len(tasks[1].messages) = 3
  /\ tasks[1].messages[3].role = "tool"
  /\ tasks[1].messages[3].tool = "run_command"
  /\ tasks[1].messages[3].params = extractToolCall(ReplyRunCommand).params
  /\ tasks[1].messages[3].content = <<"out">>
  /\ chains[lastOp.slot].wait = "idle"

\* C14 (step): the model or the tool collaborator answers a task's request
\* with an error.
C14_CollaboratorErrorStep ==
  \A s \in Slots, i \in 1..Len(tasks) :
    (/\ chains[s].wait # "idle"
     /\ chains[s].fr.manual = ""
     /\ chains[s].fr.taskId = tasks[i].id
     /\ lastOp'.op \in {"chatError", "toolError"}
     /\ lastOp'.slot = s
     /\ QuietOn(tasks[i].id))
    => /\ tasks'[i].status = "failed"
       /\ tasks'[i].error # NoError
       /\ tasks'[i].error =
            (IF lastOp'.text # <<>> THEN lastOp'.text
             ELSE IF lastOp'.op = "chatError" THEN ERR_BACKEND ELSE ERR_TOOL_FAILED)
       /\ tasks'[i].messages = tasks[i].messages
       /\ chains'[s].wait = "idle" \/ chains'[s].fr.taskId # tasks[i].id
       /\ NoRequestFor(tasks[i].id)

\* C14 (step): only the operator or a chain that is waiting for task t starts a
\* request on behalf of t: the arrival of a response in one chain starts no
\* request for the task of another chain, and none for a task the chain passed.
C14_NoRetryStep ==
  \A s \in Slots :
    (/\ lastOp'.op \in {"chatReply", "chatError", "toolResult", "toolError"}
     /\ chains'[s].wait # "idle"
     /\ chains'[s] # chains[s])
    => /\ lastOp'.slot = s
       /\ chains[s].wait # "idle"
       /\ \/ chains'[s].fr.taskId = chains[s].fr.taskId
          \/ chains[s].fr.loop # "none"

\* C14: when the model collaborator or the tool collaborator returns an error
\* during a run, the task ends in failed with a non-empty error (the
\* collaborator's message, else the fallback text), and no further model or
\* tool request is issued for that task until the operator acts: the chain
\* ends or goes on to another task, and no response starts a request for a
\* task that has no chain waiting.
C14_CollaboratorError ==
  /\ [][C14_CollaboratorErrorStep]_vars
  /\ [][C14_NoRetryStep]_vars

\* The model collaborator failed without a message on run-all's first task:
\* the task is failed with the fallback text and run-all waits for the second.
C14_Witness ==
  /\ lastOp.op = "chatError"
  /\ lastOp.text = <<>>
  /\ lastOp.taskId = tasks[1].id
  /\ tasks[1].status = "failed"
  /\ tasks[1].error = ERR_BACKEND
  /\ Len(tasks[1].messages) = 1
  /\ chatCount = 2
  /\ chains[lastOp.slot].wait = "chat"
  /\ chains[lastOp.slot].fr.taskId = tasks[2].id

\* C15 (step): Run Task on a task whose prompt is empty or whitespace only.
C15_EmptyPromptStep ==
  \A i \in 1..Len(tasks) :
    (/\ lastOp'.op = "runTask"
     /\ clicks' = clicks + 1
     /\ lastOp'.taskId = tasks[i].id
     /\ \A n \in 1..Len(tasks[i].prompt) : tasks[i].prompt[n] \in WS)
    => /\ tasks'[i].status = "failed"
       /\ tasks'[i].error = ERR_EMPTY_PROMPT
       /\ tasks'[i].error # NoError
       /\ chatCount' = chatCount
       /\ toolCount' = toolCount
       /\ chains' = chains
       /\ tasks'[i].messages = tasks[i].messages
       /\ tasks'[i].stepCount = tasks[i].stepCount
       /\ pendingApprovals' = pendingApprovals
       /\ idCounter' = idCounter

\* C15: runTask on a task whose prompt is empty after trimming sets the task to
\* failed with a validation error, sends no model or tool request, and leaves
\* the task's messages, stepCount and the approval queue unchanged.
C15_EmptyPrompt == [][C15_EmptyPromptStep]_vars

\* A task with a blank prompt had a chat exchange; Run Task then made it failed
\* with the validation error, its two messages kept and no second request sent.
C15_Witness ==
  /\ lastOp.op = "runTask"
  /\ tasks[1].prompt = <<" ">>
  /\ tasks[1].status = "failed"
  /\ tasks[1].error = ERR_EMPTY_PROMPT
  /\ Len(tasks[1].messages) = 2
  /\ chatCount = 1
  /\ toolCount = 0
  /\ \A s \in Slots : chains[s].wait = "idle"

\* The entries of the step into a function that starts a run.
RunStarts ==
  {k \in 1..Len(events') :
     events'[k].kind = "enter" /\ events'[k].handler \in {"runTask", "handleChatSend"}}

\* C16 (step): runTask with a prompt that is not blank, or a chat send.
C16_StartStep ==
  \A k \in RunStarts, i \in 1..Len(tasks) :
    (/\ events'[k].taskId = tasks[i].id
     /\ events'[k].handler = "runTask" =>
          \E n \in 1..Len(tasks[i].prompt) : tasks[i].prompt[n] \notin WS)
    => /\ tasks'[i].status = "running"
       /\ tasks'[i].error = NoError
       /\ tasks'[i].pendingToolCall = NullCall
       /\ tasks'[i].stepCount = 0
       /\ chatCount' = chatCount + 1
       /\ Len(tasks'[i].messages) = Len(tasks[i].messages) + 1
       /\ tasks'[i].messages[Len(tasks'[i].messages)].role = "user"
       /\ \E s \in Slots :
            /\ chains'[s].wait = "chat"
            /\ chains'[s] # chains[s]
            /\ chains'[s].fr.taskId = tasks[i].id

\* C16: starting a run (runTask with a non-empty prompt, or a chat send) from
\* any status sets the task to running with error "", pendingToolCall null
\* and stepCount 0 by the time the first model request is on its way.
C16_Start == [][C16_StartStep]_vars

\* The task was awaiting with a proposed run_command call (auto-run and
\* auto-continue off); Run Task started it again: running, nothing pending,
\* the second request in flight.
C16_Witness ==
  /\ lastOp.op = "runTask"
  /\ ~autoRunTools /\ ~autoContinue
  /\ clicks = 2
  /\ chatCount = 2
  /\ Len(tasks[1].messages) = 3
  /\ tasks[1].messages[2].content = ReplyRunCommand
  /\ tasks[1].status = "running"
  /\ tasks[1].error = NoError
  /\ tasks[1].pendingToolCall = NullCall
  /\ tasks[1].stepCount = 0
  /\ \E s \in Slots : chains[s].wait = "chat" /\ chains[s].fr.taskId = tasks[1].id

\* The attempts of the step for task taskId that pass through the gate.
AttemptsFor(taskId) ==
  {k \in 1..Len(events') :
     /\ events'[k].kind = "attempt"
     /\ ~events'[k].skipApproval
     /\ events'[k].taskId = taskId}

\* C17 (step): an assistant reply arrives that parses to a tool call.
C17_ProposalStep ==
  \A s \in Slots, i \in 1..Len(tasks) :
    (/\ chains[s].wait = "chat"
     /\ chains[s].fr.taskId = tasks[i].id
     /\ lastOp'.op = "chatReply"
     /\ lastOp'.slot = s
     /\ extractToolCall(lastOp'.text) # NullCall)
    => LET toolCall == extractToolCall(lastOp'.text)
           env == chains[s].fr.env
           auto == env.autoRunTools \/ env.autoContinue \/ toolCall.tool = "web_search"
       IN /\ (AttemptsFor(tasks[i].id) # {}) <=> auto
          /\ \A k \in AttemptsFor(tasks[i].id) :
               /\ events'[k].tool = toolCall.tool
               /\ events'[k].entry # "deny" => tasks'[i].pendingToolCall = toolCall
          /\ ~auto =>
               /\ tasks'[i].status = "awaiting"
               /\ tasks'[i].pendingToolCall = toolCall
               /\ tasks'[i].error = NoError
               /\ pendingApprovals' = pendingApprovals
               /\ idCounter' = idCounter
               /\ toolCount' = toolCount
               /\ chatCount' = chatCount
               /\ chains'[s].wait = "idle" \/ chains'[s].fr.taskId # tasks[i].id
               /\ NoRequestFor(tasks[i].id)

\* C17 (step): a proposed call is attempted through the gate only in the step of
\* the reply that proposed it or by the operator's Run button.
C17_AttemptOriginStep ==
  \A k \in 1..Len(events') :
    (events'[k].kind = "attempt" /\ ~events'[k].skipApproval)
      => \/ lastOp'.op = "executeToolCall" /\ clicks' = clicks + 1
         \/ /\ lastOp'.op = "chatReply"
            /\ extractToolCall(lastOp'.text).tool = events'[k].tool

\* C17: when an assistant reply parses to a tool call, the task gets that call
\* as pendingToolCall and status awaiting; an execution attempt follows
\* immediately if and only if auto-run is on, or auto-continue is on, or the
\* tool is web_search; otherwise the task stays awaiting with no approval
\* enqueued and no tool invoked until the operator runs or dismisses the call.
C17_Proposal ==
  /\ [][C17_ProposalStep]_vars
  /\ [][C17_AttemptOriginStep]_vars

\* With auto-run and auto-continue off the model proposed a web_search call and
\* web_search is ask: the attempt was made at once and its approval is queued.
C17_Witness ==
  /\ lastOp.op = "chatReply"
  /\ lastOp.text = ReplyWebSearch
  /\ ~autoRunTools /\ ~autoContinue
  /\ \E k \in 1..Len(events) : events[k].kind = "attempt" /\ events[k].tool = "web_search"
  /\ tasks[1].status = "awaiting"
  /\ tasks[1].pendingToolCall.tool = "web_search"
  /\ Len(pendingApprovals) = 1
  /\ pendingApprovals[1].toolCall = tasks[1].pendingToolCall
  /\ toolCount = 0

\* C18: once a task is done or failed, its status changes only in a step in
\* which the operator resets it or a run is started on it (runTask or
\* handleChatSend is entered for it); no approval resolution, dismissal,
\* pending-call Run button or callback of an earlier chain changes it.
C18_TerminalStep ==
  \A i \in 1..Len(tasks) :
    (/\ tasks[i].status \in {"done", "failed"}
     /\ Len(tasks') = Len(tasks)
     /\ tasks'[i].status # tasks[i].status)
    => \/ lastOp'.op = "resetTask" /\ lastOp'.taskId = tasks[i].id
       \/ \E k \in RunStarts : events'[k].taskId = tasks[i].id

C18_TerminalStable == [][C18_TerminalStep]_vars

\* The task had failed on the tool collaborator's error "out" with its call
\* still pending; the Dismiss button has made it done.
C18_DismissedOutOfFailed ==
  /\ lastOp.op = "dismissPendingTool"
  /\ clicks = 2
  /\ toolCount = 1
  /\ tasks[1].status = "done"
  /\ tasks[1].error = <<"out">>
  /\ tasks[1].pendingToolCall = NullCall
  /\ \A s \in Slots : chains[s].wait = "idle"

\* C19: every approval is resolved at most once: for each approval id the
\* body of resolveSingleApproval (tool execution or deny handling) runs at most
\* one time, also when a resolve-all loop over its snapshot of the queue
\* overlaps with a resolution by id or with a second resolve-all.
C19_ResolvedAtMostOnce ==
  \A id \in 1..idCounter : Cardinality(ResolutionsOf(id)) <= 1

\* The second approval was denied by id while Allow All Pending was waiting for
\* the first approval's tool; when that tool answered, the loop resolved the
\* second approval again from its snapshot and sent its tool call to the
\* collaborator.
C19_ResolvedTwice ==
  /\ lastOp.op \in {"toolResult", "toolError"}
  /\ Len(resolutions) = 3
  /\ resolutions[1][2] = "allow_once"
  /\ resolutions[2] = <<resolutions[3][1], "deny_once">>
  /\ resolutions[3][2] = "allow_once"
  /\ resolutions[1][1] # resolutions[2][1]
  /\ pendingApprovals = <<>>
  /\ \E s \in Slots :
       /\ chains[s].wait = "tool"
       /\ chains[s].fr.top = "resolveAllApprovals"
       /\ chains[s].fr.taskId = tasks[2].id

\* The resolutions the step adds to the history.
NewResolutions == (Len(resolutions) + 1)..Len(resolutions')

\* The tool of the approval with this id, as far as the state before the step
\* knows it: queued, or in the snapshot of a resolve-all loop that is waiting.
ToolsOfApproval(id) ==
  {pendingApprovals[i].toolCall.tool : i \in {j \in 1..Len(pendingApprovals) :
                                                pendingApprovals[j].id = id}}
    \cup UNION {{chains[s].fr.rest[i].toolCall.tool :
                   i \in {j \in 1..Len(chains[s].fr.rest) : chains[s].fr.rest[j].id = id}} :
                 s \in {c \in Slots : chains[c].wait # "idle"
                                        /\ chains[c].fr.loop = "resolveAllApprovals"}}

\* C20 (step): the policy table after a step that resolves approvals.
C20_PolicyStep ==
  NewResolutions # {} =>
    /\ (\A j \in NewResolutions : resolutions'[j][2] \in {"allow_once", "deny_once"})
         => permissionPolicy' = permissionPolicy
    /\ \A j \in NewResolutions :
         resolutions'[j][2] \in {"allow_always", "deny_always"} =>
           \A tool \in ToolsOfApproval(resolutions'[j][1]) :
             /\ permissionPolicy'[tool] =
                  (IF resolutions'[j][2] = "allow_always" THEN "allow" ELSE "deny")
             /\ \A other \in Tools \ {tool} :
                  permissionPolicy'[other] = permissionPolicy[other]
    /\ \A j \in NewResolutions : ToolsOfApproval(resolutions'[j][1]) # {}

\* C20: resolving an approval with allow_once or deny_once leaves the whole
\* policy table unchanged; allow_always / deny_always changes only the entry of
\* the approval's tool (to allow / deny) and leaves every other entry unchanged.
C20_PolicyFrame == [][C20_PolicyStep]_vars

\* The operator had set run_command to ask; Always Allow on the queued
\* run_command approval has made that entry allow and left the others.
C20_Witness ==
  /\ lastOp.op = "resolveApprovalById"
  /\ lastOp.action = "allow_always"
  /\ resolutions = <<<<lastOp.id, "allow_always">>>>
  /\ permissionPolicy["run_command"] = "allow"
  /\ \A tool \in Tools \ {"run_command"} :
       permissionPolicy[tool] = DEFAULT_PERMISSION_POLICY[tool]
  /\ toolCount = 1

\* C21 (step): removing the only task is refused, and removing one of several
\* tasks removes that task alone and leaves the others in their order.
C21_RemoveStep ==
  lastOp'.op = "removeTask" =>
    IF Len(tasks) <= 1
    THEN tasks' = tasks /\ activeTaskId' = activeTaskId
    ELSE /\ tasks' = SelectSeq(tasks, LAMBDA task : task.id # lastOp'.taskId)
         /\ activeTaskId' =
              (IF activeTaskId # lastOp'.taskId THEN activeTaskId ELSE tasks'[1].id)

\* C21: after any sequence of addTask and removeTask operations the task list
\* contains at least one task and the active task id refers to a task in the
\* list: removing the active task re-selects an existing one, removing the only
\* task is refused.
C21_TaskListNeverEmpty ==
  /\ [](Len(tasks) >= 1 /\ HasTask(tasks, activeTaskId))
  /\ [][C21_RemoveStep]_vars

\* The operator has added a second task, which became the active one, and
\* removed it: the first task is left and is the active one again.
C21_Witness ==
  /\ lastOp.op = "removeTask"
  /\ lastOp.action = "removed the active task"
  /\ lastOp.taskId = 2
  /\ taskCounter = 3
  /\ Len(tasks) = 1
  /\ tasks[1].id = 1
  /\ activeTaskId = 1

RECURSIVE IsSubsequence(_, _)
\* The messages of a occur in b, in the same relative order.
IsSubsequence(a, b) ==
  IF a = <<>> THEN TRUE
  ELSE IF b = <<>> THEN FALSE
  ELSE IF Head(a) = Head(b) THEN IsSubsequence(Tail(a), Tail(b))
  ELSE IsSubsequence(a, Tail(b))

\* C22: while shared-thread mode is on, every message appended to a task's log
\* during a run (user, assistant and tool messages) is also in the shared
\* sequence, in the same relative order.
C22_LogMirrored ==
  sharedThread => \A i \in 1..Len(tasks) : IsSubsequence(tasks[i].messages, sharedMessages)

\* Shared-thread mode is on and a tool result has been recorded: the task's log
\* holds the tool message and the shared sequence holds no tool message.
C22_ToolMessageNotShared ==
  /\ sharedThread
  /\ lastOp.op = "toolResult"
  /\ \E i \in 1..Len(tasks) :
       /\ tasks[i].id = lastOp.taskId
       /\ \E k \in 1..Len(tasks[i].messages) : tasks[i].messages[k].role = "tool"
  /\ \A k \in 1..Len(sharedMessages) : sharedMessages[k].role # "tool"

\* C23 (step): a model request is sent for a task while shared-thread mode is
\* off.
C23_RequestStep ==
  (chatCount' = chatCount + 1 /\ ~sharedThread) =>
    LET request == chains'[lastOp'.slot]
    IN /\ request.wait = "chat"
       /\ HasTask(tasks', request.fr.taskId)
       /\ request.outgoing = FindTask(tasks', request.fr.taskId).messages
       /\ sharedMessages' = sharedMessages

\* C23: while shared-thread mode is off, each model request for a task carries
\* exactly the task's own message log as it stands at that moment (every
\* message appended to the task so far, in order, the latest assistant reply
\* and tool result included) followed by the new user message, carries no
\* message of another task, and leaves the shared sequence unchanged.
C23_RequestCarriesLog == [][C23_RequestStep]_vars

\* Shared-thread mode is off and the follow-up request of an auto-continued run
\* is in flight: the task's log is user, assistant, user and the request
\* carries the two user messages without the assistant's reply between them.
C23_ReplyMissingFromRequest ==
  /\ ~sharedThread
  /\ lastOp.op = "chatReply"
  /\ \E s \in Slots :
       /\ chains[s].wait = "chat"
       /\ HasTask(tasks, chains[s].fr.taskId)
       /\ LET log == FindTask(tasks, chains[s].fr.taskId).messages
          IN /\ Len(log) = 3
             /\ log[2].role = "assistant"
             /\ chains[s].outgoing = <<log[1], log[3]>>

\* a is an initial segment of b.
IsPrefix(a, b) == Len(a) <= Len(b) /\ a = SubSeq(b, 1, Len(a))

\* The updates of the shared sequence made in the last step.
SharedWrites == {k \in 1..Len(events) : events[k].kind = "shared"}

\* C25: the shared conversation sequence is mutated only by append: every value
\* an update gives it is an extension of the value it had, so no message once
\* in the shared sequence is dropped or replaced, across consecutive
\* auto-continue requests and across the tasks using the thread.
C25_SharedAppendOnly ==
  \A k \in SharedWrites : IsPrefix(events[k].was, events[k].is)

\* The assistant's reply was appended to the shared sequence and the follow-up
\* request of the same step has replaced the sequence by one without the reply.
C25_ReplyDroppedFromShared ==
  /\ sharedThread
  /\ lastOp.op = "chatReply"
  /\ \E j, k \in SharedWrites :
       /\ k = j + 1
       /\ events[j].is = Append(events[j].was, Message("assistant", lastOp.text, "", JUndef))
       /\ events[k].was = events[j].is
       /\ events[k].is = Append(events[j].was, UserMessage(FollowupAfterReply))
       /\ sharedMessages = events[k].is

\* The assistant message at position j of log proposed the call that the tool
\* message records.
Proposed(log, j, toolMessage) ==
  /\ log[j].role = "assistant"
  /\ extractToolCall(log[j].content) = [tool |-> toolMessage.tool, params |-> toolMessage.params]

\* C24 (order): in every task's log every assistant message is immediately
\* preceded by a user message (the one of its request) and every tool message
\* of the agent comes after the assistant message that proposed its call.
C24_CausalLog(log) ==
  \A k \in 1..Len(log) :
    /\ log[k].role = "assistant" => (k > 1 /\ log[k - 1].role = "user")
    /\ log[k].role = "tool" => \E j \in 1..(k - 1) : Proposed(log, j, log[k])

\* C24: between resets each task's message log grows only by appending at the
\* end and follows causal order (user, assistant, optional tool, ...): every
\* assistant message is immediately preceded by the user message of its
\* request and each agent tool message follows the assistant message that
\* proposed the call, also when run-all, a Run Task click and an
\* approval-resumed chain act on the same task.
C24_CausalOrder == \A i \in 1..Len(tasks) : C24_CausalLog(tasks[i].messages)

\* Run-all ran the first task, whose reply asked for an approval; the operator
\* pressed Run Task on it and then allowed the approval: the tool message of the
\* resumed chain stands between the user message of the second run and its
\* reply.
C24_ReplyAfterToolMessage ==
  /\ lastOp.op = "chatReply"
  /\ \E i \in 1..Len(tasks) :
       /\ tasks[i].id = lastOp.taskId
       /\ Len(tasks[i].messages) = 5
       /\ tasks[i].messages[1].role = "user"
       /\ tasks[i].messages[2].role = "assistant"
       /\ tasks[i].messages[3].role = "user"
       /\ tasks[i].messages[4].role = "tool"
       /\ tasks[i].messages[5].role = "assistant"

ApprovalIds(queue) == [i \in 1..Len(queue) |-> queue[i].id]

\* C26 (queue): the approvals are queued in the order in which they were asked
\* for, and the one shown as active is the oldest of them.
C26_Ordered ==
  /\ \A i, j \in 1..Len(pendingApprovals) :
       i < j => pendingApprovals[i].id < pendingApprovals[j].id
  /\ pendingApprovals # <<>> =>
       \A i \in 1..Len(pendingApprovals) : activeApproval.id <= pendingApprovals[i].id

\* C26 (step): the queue after a step is what is left of the queue before it,
\* in the same order, followed by the approvals asked for in the step.
C26_QueueStep ==
  LET kept == SelectSeq(pendingApprovals, LAMBDA entry :
                \E j \in 1..Len(pendingApprovals') : pendingApprovals'[j].id = entry.id)
      added == SelectSeq(pendingApprovals', LAMBDA entry : entry.id > idCounter)
  IN /\ pendingApprovals' = kept \o added
     /\ ApprovalIds(added) = [i \in 1..(idCounter' - idCounter) |-> idCounter + i]

\* C26 (resolve-all): the approvals a resolve-all loop resolves in a step,
\* followed by those it has still to visit, are the ones it had to visit before
\* the step (at the click: the queue), in that order.
C26_ResolveAllStep ==
  LET s == lastOp'.slot
      click == lastOp'.op \in {"resolveAllApprovals", "handleNoLookToggle"} /\ s \in Slots
      resumed == /\ lastOp'.op \in {"toolResult", "toolError", "chatReply", "chatError"}
                 /\ chains[s].fr.loop = "resolveAllApprovals"
      before == IF click THEN pendingApprovals ELSE chains[s].fr.rest
      after == IF chains'[s].wait # "idle" /\ chains'[s].fr.loop = "resolveAllApprovals"
               THEN chains'[s].fr.rest ELSE <<>>
      resolvedNow == [j \in 1..(Len(resolutions') - Len(resolutions)) |->
                        resolutions'[Len(resolutions) + j][1]]
  IN (click \/ resumed) => ApprovalIds(before) = resolvedNow \o ApprovalIds(after)

\* C26: the approval queue is FIFO: requestApproval adds the new approval at the
\* tail, removing one approval leaves the relative order of the others
\* unchanged, the first queued approval is the one shown as active, and
\* resolve-all processes the approvals in queue order.
C26_Fifo ==
  /\ []C26_Ordered
  /\ [][C26_QueueStep /\ C26_ResolveAllStep]_vars

\* Four approvals were queued and the operator has resolved the second of
\* them: the first, the third and the fourth are queued, in that order.
C26_Witness ==
  /\ lastOp.op = "resolveApprovalById"
  /\ lastOp.id = 0
  /\ idCounter = 2
  /\ ApprovalIds(pendingApprovals) = <<-1, 1, 2>>

\* What handleAssistantResponse got from extractToolCall for the reply of the
\* last step, where a call it finds stays the task's pending call (auto-run and
\* auto-continue off): NullCall stands for null.
ParsedReply == FindTask(tasks, lastOp.taskId).pendingToolCall

RepliedWith(text) ==
  /\ lastOp.op = "chatReply"
  /\ lastOp.text = text
  /\ ~autoRunTools
  /\ ~autoContinue
  /\ HasTask(tasks, lastOp.taskId)

\* C27: for every input text extractToolCall returns either null or a pair of
\* a tool, which is one of read_file, write_file, run_command, list_files and
\* web_search, and params, which is an object-shaped parameter mapping (never
\* a string, a number, null or a list); it never raises.
C27_ResultWellFormed ==
  RepliedWith(lastOp.text) =>
    /\ ParsedReply = extractToolCall(lastOp.text)
    /\ \/ ParsedReply = NullCall
       \/ /\ ParsedReply.tool \in {"read_file", "write_file", "run_command", "list_files",
                                   "web_search"}
          /\ ParsedReply.params.t = "obj"

\* The reply named read_file with a list as its params, and the call the parser
\* returned carries that list as its params.
C27_ListAsParams ==
  /\ RepliedWith(NamedCall("tool", "read_file", "params", ListA))
  /\ ParsedReply.tool = "read_file"
  /\ ParsedReply.params = JArr(<<JStr(<<"a">>)>>)

\* Trailing prose: text without a brace, a fence or a tool tag.
Prose(s) == \A i \in 1..Len(s) : s[i] \notin {"{", "}", FENCE, "="}

\* The object a JSON reader decodes at the start of the text, and where it ends.
LeadingObject(text) == ParseValue(text, 1)

\* The text is one well-formed object that names a known tool and carries its
\* params as an object, followed by nothing or by prose.
WellFormedCall(text) ==
  /\ Len(text) > 0
  /\ text[1] = "{"
  /\ LeadingObject(text).ok
  /\ LeadingObject(text).val.t = "obj"
  /\ GetMember(LeadingObject(text).val, <<"tool">>).t = "str"
  /\ IsToolName(GetMember(LeadingObject(text).val, <<"tool">>).v)
  /\ GetMember(LeadingObject(text).val, <<"params">>).t = "obj"
  /\ Prose(SubSeq(text, LeadingObject(text).next, Len(text)))

\* C28: for every text that is exactly one well-formed object naming a known
\* tool, optionally followed by trailing prose, the parser recovers exactly that
\* object (same tool, same params) and ignores the prose, also when string
\* values inside the object contain '{' or '}'.
C28_RoundTrip ==
  (RepliedWith(lastOp.text) /\ WellFormedCall(lastOp.text)) =>
    ParsedReply = [tool |-> GetMember(LeadingObject(lastOp.text).val, <<"tool">>).v[1],
                   params |-> GetMember(LeadingObject(lastOp.text).val, <<"params">>)]

\* The reply was a well-formed run_command call whose command is the string
\* "}", and the parser found no call in it.
C28_BraceInStringLost ==
  /\ RepliedWith(NamedCall("tool", "run_command", "params",
                           Object1(Field("command", Quoted(<<"}">>)))))
  /\ WellFormedCall(lastOp.text)
  /\ GetMember(GetMember(LeadingObject(lastOp.text).val, <<"params">>), <<"command">>)
       = JStr(<<"}">>)
  /\ ParsedReply = NullCall

\* The object parseToolCallJson decodes from the text: JSON.parse of the slice
\* the scan returns.
Decoded(text) == JSONparse(findFirstJsonObject(text))

IsDecodedObject(text) ==
  /\ findFirstJsonObject(text) # NullText
  /\ Decoded(text).ok
  /\ Decoded(text).val.t = "obj"

\* The name of a decoded object: its tool field when that is a string, else its
\* name field when that is a string; <<>> when there is none or it is empty.
NameOf(parsed) ==
  IF GetMember(parsed, <<"tool">>).t = "str" THEN GetMember(parsed, <<"tool">>).v
  ELSE IF GetMember(parsed, <<"name">>).t = "str" THEN GetMember(parsed, <<"name">>).v
  ELSE <<>>

\* The top-level fields of a decoded object other than its name and its
\* parameter fields.
RemainingFields(parsed) ==
  JObj(SelectSeq(parsed.v, LAMBDA member :
         member[1] \notin {<<"tool">>, <<"name">>, <<"params">>, <<"arguments">>, <<"args">>}))

\* C29: for a decoded object that names a known tool the parameters are taken
\* from the params field, else arguments, else args, and when none of these is
\* present they are the remaining top-level fields of the decoded object.
C29_ParamsSource ==
  (RepliedWith(lastOp.text) /\ IsDecodedObject(lastOp.text)
     /\ IsToolName(Trim(NameOf(Decoded(lastOp.text).val)))) =>
    ParsedReply =
      [tool |-> Trim(NameOf(Decoded(lastOp.text).val))[1],
       params |-> NormalizeParams(
                    Coalesce(GetMember(Decoded(lastOp.text).val, <<"params">>),
                      Coalesce(GetMember(Decoded(lastOp.text).val, <<"arguments">>),
                        Coalesce(GetMember(Decoded(lastOp.text).val, <<"args">>),
                                 RemainingFields(Decoded(lastOp.text).val)))))]

\* The reply named read_file and carried file_path as a top-level field, with
\* no params, arguments or args; the call the parser returned has no parameter.
C29_TopLevelFieldsDropped ==
  /\ RepliedWith(NamedCall("tool", "read_file", "file_path", Quoted(<<"a">>)))
  /\ IsDecodedObject(lastOp.text)
  /\ RemainingFields(Decoded(lastOp.text).val) = JObj(<<<<<<"file_path">>, JStr(<<"a">>)>>>>)
  /\ ParsedReply = [tool |-> "read_file", params |-> EmptyObj]

HasField(parsed, key) == \E i \in 1..Len(parsed.v) : parsed.v[i][1] = key

\* The value of the field that carries the name: the tool field, else the name
\* field.
NameField(parsed) ==
  IF HasField(parsed, <<"tool">>) THEN GetMember(parsed, <<"tool">>)
  ELSE GetMember(parsed, <<"name">>)

\* The tool a to=<identifier> tag of the text names, <<>> when there is no tag.
HintOf(text) == IF MatchToolTag(text).found THEN Trim(MatchToolTag(text).cap) ELSE <<>>

C31_Coerced ==
  /\ Number(maxSteps) = NaN \/ Number(maxSteps) <= 0
  /\ StepLimit(maxSteps) = 1

\* C31 (step): a response to the chain of a task, with auto-continue on.  A
\* continuation request is sent after a reply without a tool call and without
\* the marker, and after a tool result, exactly when the task has counted no
\* step yet, and it is the task's step 1.
C31_LimitStep ==
  \A s \in Slots, i \in 1..Len(tasks) :
    (/\ chains[s].wait # "idle"
     /\ lastOp'.slot = s
     /\ lastOp'.op \in {"chatReply", "toolResult"}
     /\ tasks[i].id = chains[s].fr.taskId
     /\ chains[s].fr.env.autoContinue)
    => /\ chatCount' \in {chatCount, chatCount + 1}
       /\ chatCount' = chatCount + 1 =>
            /\ tasks[i].stepCount = 0
            /\ tasks'[i].stepCount = 1
            /\ chains'[s].wait = "chat"
       /\ (/\ tasks[i].stepCount = 0
           /\ \/ lastOp'.op = "toolResult"
              \/ /\ extractToolCall(lastOp'.text) = NullCall
                 /\ ~BeginsWithDone(lastOp'.text))
            => chatCount' = chatCount + 1
       /\ (tasks[i].stepCount >= 1 /\ toolCount' = toolCount) =>
            /\ chatCount' = chatCount
            /\ tasks'[i].status = "done"

\* C31: the step limit both continuation checks use is the configured value
\* coerced to at least 1: with 0, a negative value or a value that is no number
\* configured the limit is 1, so with auto-continue on a run is allowed exactly
\* one continuation request.
C31_CoercedLimit ==
  /\ []C31_Coerced
  /\ [][C31_LimitStep]_vars

\* Max Steps is 0; the run sent its request and one continuation, both were
\* answered in plain text, and the task is done with one step counted.
C31_Witness ==
  /\ maxSteps = "0"
  /\ clicks = 1
  /\ lastOp.op = "chatReply"
  /\ chatCount = 2
  /\ Len(Replies(tasks[1])) = 2
  /\ \A k \in 1..2 : Replies(tasks[1])[k].content = ReplyPlain
  /\ tasks[1].status = "done"
  /\ tasks[1].stepCount = 1

\* The chains that start to wait for the tool collaborator in the step on
\* behalf of a task's tool call.
NewTaskToolRuns ==
  {s \in Slots :
     /\ chains'[s].wait = "tool"
     /\ chains'[s] # chains[s]
     /\ chains'[s].fr.manual = ""}

C32_DeniedStep ==
  \A s \in NewTaskToolRuns : permissionPolicy'[chains'[s].toolCall.tool] # "deny"

\* C32: the tool collaborator is never invoked for a task's tool call at a
\* moment when the policy entry of that tool is deny: not by an auto-run
\* attempt, not by the resolution of a queued approval with an allow action,
\* not by the no-look flush of the queue.
C32_NeverRunWhileDenied == [][C32_DeniedStep]_vars

\* The operator has set run_command to deny and then allowed the queued
\* approval of a task's run_command call: the call is with the tool
\* collaborator while the policy entry is deny.
C32_AllowedWhileDenied ==
  /\ lastOp.op = "resolveApprovalById"
  /\ lastOp.action = "allow_once"
  /\ permissionPolicy["run_command"] = "deny"
  /\ chains[lastOp.slot].wait = "tool"
  /\ chains[lastOp.slot].fr.manual = ""
  /\ chains[lastOp.slot].fr.taskId = lastOp.taskId
  /\ chains[lastOp.slot].toolCall.tool = "run_command"

\* The approvals that left the queue without a resolution: those a dismissal
\* removed (an approval leaves the queue in resolveSingleApproval, which the
\* history records, or in dismissPendingTool).
DismissedIds ==
  {id \in 1..idCounter :
     /\ \A i \in 1..Len(pendingApprovals) : pendingApprovals[i].id # id
     /\ ResolutionsOf(id) = {}}

\* C33 (step): a chain that starts to wait for the tool collaborator with a
\* task's tool call right after a resolution has not resolved the approval of a
\* dismissed call.
C33_DismissedStep ==
  \A s \in NewTaskToolRuns :
    Len(resolutions') > Len(resolutions) =>
      resolutions'[Len(resolutions')][1] \notin DismissedIds

\* C33: once a pending tool call that has not started executing is dismissed,
\* the tool collaborator is never invoked for that call (and so no tool message
\* for it is appended to the task), whatever resolutions of approvals, single
\* or resolve-all, happen afterwards.
C33_DismissedNeverRuns == [][C33_DismissedStep]_vars

\* Allow All Pending went on, after the first approval's tool answered, to the
\* approval of the second task, whose call was dismissed meanwhile: no approval
\* was denied, the second task has no pending call, and its dismissed call is
\* with the tool collaborator.
C33_DismissedCallRuns ==
  /\ lastOp.op = "toolResult"
  /\ lastOp.taskId = 1
  /\ clicks = 2
  /\ resolutions = <<<<1, "allow_once">>, <<2, "allow_once">>>>
  /\ chains[lastOp.slot].wait = "tool"
  /\ chains[lastOp.slot].fr.top = "resolveAllApprovals"
  /\ chains[lastOp.slot].fr.taskId = 2
  /\ chains[lastOp.slot].toolCall.tool = "run_command"
  /\ FindTask(tasks, 2).pendingToolCall = NullCall
  /\ FindTask(tasks, 2).status = "running"

\* C34: every queued approval with source agent and taskId t corresponds to
\* t's current state: task t exists, its status is awaiting and its
\* pendingToolCall equals the approval's toolCall (so that a tool executed on
\* approval is the task's current pending call); also after a reset and after a
\* re-run of an awaiting task.
C34_ApprovalMatchesTask ==
  \A i \in 1..Len(pendingApprovals) :
    pendingApprovals[i].source = "agent" =>
      /\ HasTask(tasks, pendingApprovals[i].taskId)
      /\ FindTask(tasks, pendingApprovals[i].taskId).status = "awaiting"
      /\ FindTask(tasks, pendingApprovals[i].taskId).pendingToolCall
           = pendingApprovals[i].toolCall

\* The first task was reset while its approval was queued: the task is idle
\* with no pending call and no message, and the approval is still queued.
C34_ApprovalOfResetTask ==
  /\ lastOp.op = "resetTask"
  /\ lastOp.taskId = 1
  /\ FindTask(tasks, 1).status = "idle"
  /\ FindTask(tasks, 1).pendingToolCall = NullCall
  /\ FindTask(tasks, 1).messages = <<>>
  /\ \E i \in 1..Len(pendingApprovals) :
       /\ pendingApprovals[i].source = "agent"
       /\ pendingApprovals[i].taskId = 1
       /\ pendingApprovals[i].toolCall.tool = "run_command"

\* The chains that wait for a collaborator on behalf of task taskId (a request
\* of the tool console is not the task's).
ChainsOf(taskId) ==
  {s \in Slots :
     /\ chains[s].wait # "idle"
     /\ chains[s].fr.manual = ""
     /\ chains[s].fr.taskId = taskId}

\* C35: at most one request/response/tool chain is in flight per task at any
\* time: a task that has an outstanding model or tool request is not started
\* again by Run Task, chat send or run-all, and no second tool execution is
\* begun for it.
C35_OneChainPerTask ==
  \A i \in 1..Len(tasks) : Cardinality(ChainsOf(tasks[i].id)) <= 1

\* Run Task was pressed on the first task and then, with its model request
\* outstanding, Run All: two model requests of the first task are in flight.
C35_StartedTwice ==
  /\ lastOp.op = "runAllTasks"
  /\ clicks = 2
  /\ chatCount = 2
  /\ Cardinality(ChainsOf(1)) = 2
  /\ \A s \in ChainsOf(1) : chains[s].wait = "chat"
  /\ \E s \in ChainsOf(1) : chains[s].fr.top = "runTask"
  /\ \E s \in ChainsOf(1) : chains[s].fr.top = "runAllTasks"
  /\ FindTask(tasks, 1).status = "running"

\* The model requests sent for a task leave one user message each in its log:
\* the first of a run carries the prompt or the chat input, a continuation one
\* of the two follow-up texts.
UserMessages(task) == SelectSeq(task.messages, LAMBDA message : message.role = "user")
IsFollowup(content) ==
  content # <<>> /\ content[1] \in {FollowupAfterReply[1], FollowupAfterTool("", <<>>)[1]}
StartMessages(task) ==
  SelectSeq(UserMessages(task), LAMBDA message : ~IsFollowup(message.content))

\* C36: with the flags and the step limit L held fixed, a single run (from its
\* start until the task settles, chains resumed by approvals included) sends at
\* most 1 + L model requests when auto-continue is on, continuations after
\* replies and after tool results counted together, and exactly 1 model request
\* when auto-continue is off.
C36_RequestBound ==
  \A i \in 1..Len(tasks) :
    Len(StartMessages(tasks[i])) = 1 =>
      IF autoContinue
      THEN Len(UserMessages(tasks[i])) <= 1 + StepLimit(maxSteps)
      ELSE Len(UserMessages(tasks[i])) = 1

\* A single run with auto-continue on and step limit 1: its web_search call was
\* approved by the operator, the tool result was followed by the one
\* continuation request, and the plain reply to it settled the task.
C36_Witness ==
  /\ autoContinue
  /\ Number(maxSteps) = 1
  /\ lastOp.op = "chatReply"
  /\ \E j \in 1..Len(resolutions) : resolutions[j][2] = "allow_once"
  /\ Len(StartMessages(tasks[1])) = 1
  /\ Len(UserMessages(tasks[1])) = 2
  /\ chatCount = 2
  /\ \E k \in 1..Len(tasks[1].messages) : tasks[1].messages[k].role = "tool"
  /\ tasks[1].status = "done"
  /\ tasks[1].stepCount = 1

Running(i) == i <= Len(tasks) /\ tasks[i].status = "running"
Settled(i, statuses) == i <= Len(tasks) /\ tasks[i].status \in statuses

\* No tool has the effective permission ask.
NoAsk == \A tool \in Tools : getPermissionForTool(Env, tool) # "ask"

StartedUnattended ==
  \A s \in Slots :
    chains[s].wait # "idle" =>
      /\ \A tool \in Tools : getPermissionForTool(chains[s].fr.env, tool) # "ask"
      /\ chains[s].fr.env.autoRunTools \/ chains[s].fr.env.autoContinue

Blank(task) ==
  /\ task.status = "idle"
  /\ task.messages = <<>>
  /\ task.pendingToolCall = NullCall
  /\ task.error = NoError
  /\ task.stepCount = 0

\* A Run All loop in flight has still to visit the task.
AwaitedByRunAll(taskId) ==
  \E s \in Slots :
    /\ chains[s].wait # "idle"
    /\ chains[s].fr.loop = "runAllTasks"
    /\ \E n \in 1..Len(chains[s].fr.rest) : chains[s].fr.rest[n].id = taskId

\* The step is the operator's start of a run or a chat send on the task.
StartedOn(taskId) ==
  /\ lastOp'.op \in {"runTask", "runAllTasks", "handleChatSend", "executeToolCall"}
  /\ lastOp'.taskId \in {taskId, 0}

C38_ResetStep ==
  \A i \in 1..Len(tasks) :
    /\ (lastOp'.op = "resetTask" /\ lastOp'.taskId = tasks[i].id) => Blank(tasks'[i])
    /\ (/\ Blank(tasks[i])
        /\ ~AwaitedByRunAll(tasks[i].id)
        /\ ~StartedOn(tasks[i].id))
       => Blank(tasks'[i])

\* C38: after resetTask the task is idle with empty messages, no pending call,
\* no error and stepCount 0, and it stays in exactly that state until the
\* operator starts a new run or chat send on it: no in-flight callback and no
\* resolution of a previously queued approval changes its status or appends a
\* message.
C38_ResetStaysBlank == [][C38_ResetStep]_vars

\* The model's reply to the run that was reset has arrived: it is the first
\* message of the task's log, and the task has left idle.
C38_ReplyAfterReset ==
  /\ lastOp.op = "chatReply"
  /\ lastOp.taskId = 1
  /\ Len(tasks[1].messages) = 1
  /\ tasks[1].messages[1].role = "assistant"
  /\ tasks[1].status # "idle"

C39_OffStep ==
  (lastOp'.op = "handleNoLookToggle" /\ noLookMode /\ ~noLookMode') =>
    /\ lastOp'.action = "off"
    /\ pendingApprovals' = pendingApprovals
    /\ permissionPolicy' = permissionPolicy
    /\ tasks' = tasks
    /\ sharedMessages' = sharedMessages
    /\ chains' = chains
    /\ chatCount' = chatCount
    /\ toolCount' = toolCount
    /\ resolutions' = resolutions
    /\ runAllInProgress' = runAllInProgress

\* C39: switching no-look off changes nothing but the flag: the approval queue,
\* the policy table, every task's status, pendingToolCall and messages, and any
\* tool execution already granted or in flight are unchanged.
C39_OffChangesFlagOnly == [][C39_OffStep]_vars

\* No-look has just been switched off while the call its flush granted is in
\* flight at the tool collaborator and an approval is queued.
C39_Witness ==
  /\ lastOp.op = "handleNoLookToggle"
  /\ lastOp.action = "off"
  /\ ~noLookMode
  /\ pendingApprovals # <<>>
  /\ \E s \in Slots : /\ chains[s].wait = "tool"
                      /\ chains[s].fr.top = "handleNoLookToggle"

\* The approvals the step has appended to the queue.
NewApprovals ==
  {n \in 1..Len(pendingApprovals') :
     \A m \in 1..Len(pendingApprovals) : pendingApprovals[m].id # pendingApprovals'[n].id}

C40_NoLookStep == noLookMode' => NewApprovals = {}

\* C40: while no-look mode is on, no execution attempt of a task and no manual
\* console/editor/explorer request appends an approval to the queue: every
\* request for a non-denied tool runs directly, also within an auto-continue
\* chain that began (or was resumed by the flush) when no-look was switched on.
C40_NothingQueuedUnderNoLook == [][C40_NoLookStep]_vars

\* No-look is on and run_command is not denied; the chain the flush resumed has
\* got the model's next reply, its attempt read the flag of the closure the
\* toggle handler ran in (off), and the call is queued for approval.
C40_QueuedByFlushChain ==
  /\ noLookMode
  /\ getPermissionForTool(Env, "run_command") = "allow"
  /\ lastOp.op = "chatReply"
  /\ \E k \in 1..Len(events) :
       /\ events[k].kind = "attempt"
       /\ events[k].top = "handleNoLookToggle"
       /\ ~events[k].skipApproval
       /\ ~events[k].noLook
       /\ events[k].tool = "run_command"
  /\ \E n \in 1..Len(pendingApprovals) :
       /\ pendingApprovals[n].id = idCounter
       /\ pendingApprovals[n].taskId = lastOp.taskId
       /\ pendingApprovals[n].toolCall.tool = "run_command"

====
